---- MODULE Spec2Model ----
(***************************************************************************)
(* Twitch vote wheel (src/main.py): the vote ledger kept by App            *)
(* (vote_counts, user_votes), the event queue between the TwitchIRCClient  *)
(* thread and the Tk callbacks, and the spin state.                        *)
(*                                                                         *)
(* Text is modelled as a sequence of code points (97 is "a", 32 a space),  *)
(* so that normalize_phrase, safe_int and SequenceMatcher.ratio are        *)
(* computed the way the code computes them.                                *)
(***************************************************************************)
EXTENDS Integers, Sequences, FiniteSets, TLC

VARIABLES
    vote_counts,    \* App.vote_counts: dict in insertion order, <<[phrase, votes], ...>>
    user_votes,     \* App.user_votes: function username -> phrase
    voting_active,  \* App.voting_active
    tree,           \* rows of App.tree: <<[phrase, votes (text)], ...>>
    status_var,     \* App.status_var: the text last given to set_status
    spinning,       \* App.spinning
    rotation,       \* App.rotation, a float
    canvas_rotation, \* WheelCanvas.rotation, a float
    pointer,        \* WheelCanvas.current_phrase and current_voted_by
    max_phrases_var, \* App.max_phrases_var: the text of the "Top phrases on wheel" entry
    spin_velocity,  \* App.spin_velocity, a float
    event_queue,    \* App.event_queue: FIFO of ChatEvent
    irc_pc,         \* position of TwitchIRCClient.run; "killed" once the process is gone
    stop_event,     \* TwitchIRCClient._stop_event
    sock,           \* TwitchIRCClient.sock: "none", "open" or "closed"
    read_buffer,    \* complete lines of read_buffer not yet handled
    ui_pc,          \* position of the Tk thread: "idle", "draining", "stopping",
                    \* "destroyed", "exited"
    enqueued,       \* history: every event put on event_queue, in order
    handled,        \* history: every event process_events took, in order
    enq_at_drain,   \* history: Len(enqueued) when the last drain began
    enq_at_stop,    \* history: Len(enqueued) when stop() set the flag
    last_cb,        \* history: the Tk callback that ran last
    lines_recv,     \* history: lines received from the server so far
    pc_at_stop,     \* history: where run() was when stop() set the flag
    ticks,          \* history: update_spin_state runs so far
    last_op         \* history: what the last operation on the ledger did

ledger_vars == <<vote_counts, user_votes, tree, pointer, last_op>>
spin_vars   == <<spinning, rotation, canvas_rotation, spin_velocity, ticks>>
irc_vars    == <<irc_pc, sock, read_buffer, lines_recv>>
stop_vars   == <<stop_event, enq_at_stop, pc_at_stop>>
put_vars    == <<event_queue, enqueued>>
drain_vars  == <<handled, enq_at_drain, last_cb>>
vars == <<vote_counts, user_votes, voting_active, tree, status_var, spinning,
          rotation, spin_velocity, event_queue, irc_pc, stop_event, sock,
          read_buffer, ui_pc, enqueued, handled, enq_at_drain, enq_at_stop,
          last_cb, lines_recv, pc_at_stop, ticks, last_op, canvas_rotation, pointer,
          max_phrases_var>>

----------------------------------------------------------------------------
(* Bounds of the model *)

\* the largest tally an operation may produce
MaxVotes == 3
\* the most lines an imported file holds
MaxImportLines == 2
\* the most lines the server sends
MaxLines == 2
\* the fastest the wheel is spun, in degrees per tick
MaxSpun == 28
\* the values of random.random() tried, beside the largest
RandomSteps == 2
\* the most update_spin_state runs
MaxTicks == 3

----------------------------------------------------------------------------
(* Text *)

\* Python's None, and the empty string: both are falsy where the code tests them
NoneVal == <<>>

\* the characters str.isspace() holds of: what strip() removes and split() splits at
SpaceChars ==
    (9..13) \cup (28..32) \cup {133, 160, 5760} \cup (8192..8202)
        \cup {8232, 8233, 8239, 8287, 12288}

IsSpace(c) == IF c < 128 THEN c \in (9..13) \cup (28..32) ELSE c \in SpaceChars

\* c is in one of the ranges <<first, last>>
InRanges(c, ranges) == \E r \in ranges : r[1] <= c /\ c <= r[2]
\* str.lower() of one character outside ASCII, as runs <<first, last, stride, delta>>:
\* every stride-th character from first to last maps to itself plus delta
LowerRuns ==
    {<<65, 90, 1, 32>>, <<192, 214, 1, 32>>, <<216, 222, 1, 32>>, <<256, 302, 2, 1>>,
     <<306, 310, 2, 1>>, <<313, 327, 2, 1>>, <<330, 374, 2, 1>>, <<376, 376, 1, -121>>,
     <<377, 381, 2, 1>>, <<385, 385, 1, 210>>, <<386, 388, 2, 1>>, <<390, 390, 1, 206>>,
     <<391, 391, 1, 1>>, <<393, 394, 1, 205>>, <<395, 395, 1, 1>>, <<398, 398, 1, 79>>,
     <<399, 399, 1, 202>>, <<400, 400, 1, 203>>, <<401, 401, 1, 1>>, <<403, 403, 1,
     205>>, <<404, 404, 1, 207>>, <<406, 406, 1, 211>>, <<407, 407, 1, 209>>, <<408, 408,
     1, 1>>, <<412, 412, 1, 211>>, <<413, 413, 1, 213>>, <<415, 415, 1, 214>>, <<416,
     420, 2, 1>>, <<422, 422, 1, 218>>, <<423, 423, 1, 1>>, <<425, 425, 1, 218>>, <<428,
     428, 1, 1>>, <<430, 430, 1, 218>>, <<431, 431, 1, 1>>, <<433, 434, 1, 217>>, <<435,
     437, 2, 1>>, <<439, 439, 1, 219>>, <<440, 440, 1, 1>>, <<444, 444, 1, 1>>, <<452,
     452, 1, 2>>, <<453, 453, 1, 1>>, <<455, 455, 1, 2>>, <<456, 456, 1, 1>>, <<458, 458,
     1, 2>>, <<459, 475, 2, 1>>, <<478, 494, 2, 1>>, <<497, 497, 1, 2>>, <<498, 500, 2,
     1>>, <<502, 502, 1, -97>>, <<503, 503, 1, -56>>, <<504, 542, 2, 1>>, <<544, 544, 1,
     -130>>, <<546, 562, 2, 1>>, <<570, 570, 1, 10795>>, <<571, 571, 1, 1>>, <<573, 573,
     1, -163>>, <<574, 574, 1, 10792>>, <<577, 577, 1, 1>>, <<579, 579, 1, -195>>, <<580,
     580, 1, 69>>, <<581, 581, 1, 71>>, <<582, 590, 2, 1>>, <<880, 882, 2, 1>>, <<886,
     886, 1, 1>>, <<895, 895, 1, 116>>, <<902, 902, 1, 38>>, <<904, 906, 1, 37>>, <<908,
     908, 1, 64>>, <<910, 911, 1, 63>>, <<913, 929, 1, 32>>, <<931, 939, 1, 32>>, <<975,
     975, 1, 8>>, <<984, 1006, 2, 1>>, <<1012, 1012, 1, -60>>, <<1015, 1015, 1, 1>>,
     <<1017, 1017, 1, -7>>, <<1018, 1018, 1, 1>>, <<1021, 1023, 1, -130>>, <<1024, 1039,
     1, 80>>, <<1040, 1071, 1, 32>>, <<1120, 1152, 2, 1>>, <<1162, 1214, 2, 1>>, <<1216,
     1216, 1, 15>>, <<1217, 1229, 2, 1>>, <<1232, 1326, 2, 1>>, <<1329, 1366, 1, 48>>,
     <<4256, 4293, 1, 7264>>, <<4295, 4295, 1, 7264>>, <<4301, 4301, 1, 7264>>, <<5024,
     5103, 1, 38864>>, <<5104, 5109, 1, 8>>, <<7312, 7354, 1, -3008>>, <<7357, 7359, 1,
     -3008>>, <<7680, 7828, 2, 1>>, <<7838, 7838, 1, -7615>>, <<7840, 7934, 2, 1>>,
     <<7944, 7951, 1, -8>>, <<7960, 7965, 1, -8>>, <<7976, 7983, 1, -8>>, <<7992, 7999,
     1, -8>>, <<8008, 8013, 1, -8>>, <<8025, 8031, 2, -8>>, <<8040, 8047, 1, -8>>,
     <<8072, 8079, 1, -8>>, <<8088, 8095, 1, -8>>, <<8104, 8111, 1, -8>>, <<8120, 8121,
     1, -8>>, <<8122, 8123, 1, -74>>, <<8124, 8124, 1, -9>>, <<8136, 8139, 1, -86>>,
     <<8140, 8140, 1, -9>>, <<8152, 8153, 1, -8>>, <<8154, 8155, 1, -100>>, <<8168, 8169,
     1, -8>>, <<8170, 8171, 1, -112>>, <<8172, 8172, 1, -7>>, <<8184, 8185, 1, -128>>,
     <<8186, 8187, 1, -126>>, <<8188, 8188, 1, -9>>, <<8486, 8486, 1, -7517>>, <<8490,
     8490, 1, -8383>>, <<8491, 8491, 1, -8262>>, <<8498, 8498, 1, 28>>, <<8544, 8559, 1,
     16>>, <<8579, 8579, 1, 1>>, <<9398, 9423, 1, 26>>, <<11264, 11311, 1, 48>>, <<11360,
     11360, 1, 1>>, <<11362, 11362, 1, -10743>>, <<11363, 11363, 1, -3814>>, <<11364,
     11364, 1, -10727>>, <<11367, 11371, 2, 1>>, <<11373, 11373, 1, -10780>>, <<11374,
     11374, 1, -10749>>, <<11375, 11375, 1, -10783>>, <<11376, 11376, 1, -10782>>,
     <<11378, 11378, 1, 1>>, <<11381, 11381, 1, 1>>, <<11390, 11391, 1, -10815>>,
     <<11392, 11490, 2, 1>>, <<11499, 11501, 2, 1>>, <<11506, 11506, 1, 1>>, <<42560,
     42604, 2, 1>>, <<42624, 42650, 2, 1>>, <<42786, 42798, 2, 1>>, <<42802, 42862, 2,
     1>>, <<42873, 42875, 2, 1>>, <<42877, 42877, 1, -35332>>, <<42878, 42886, 2, 1>>,
     <<42891, 42891, 1, 1>>, <<42893, 42893, 1, -42280>>, <<42896, 42898, 2, 1>>,
     <<42902, 42920, 2, 1>>, <<42922, 42922, 1, -42308>>, <<42923, 42923, 1, -42319>>,
     <<42924, 42924, 1, -42315>>, <<42925, 42925, 1, -42305>>, <<42926, 42926, 1,
     -42308>>, <<42928, 42928, 1, -42258>>, <<42929, 42929, 1, -42282>>, <<42930, 42930,
     1, -42261>>, <<42931, 42931, 1, 928>>, <<42932, 42946, 2, 1>>, <<42948, 42948, 1,
     -48>>, <<42949, 42949, 1, -42307>>, <<42950, 42950, 1, -35384>>, <<42951, 42953, 2,
     1>>, <<42960, 42960, 1, 1>>, <<42966, 42968, 2, 1>>, <<42997, 42997, 1, 1>>,
     <<65313, 65338, 1, 32>>, <<66560, 66599, 1, 40>>, <<66736, 66771, 1, 40>>, <<66928,
     66938, 1, 39>>, <<66940, 66954, 1, 39>>, <<66956, 66962, 1, 39>>, <<66964, 66965, 1,
     39>>, <<68736, 68786, 1, 64>>, <<71840, 71871, 1, 32>>, <<93760, 93791, 1, 32>>,
     <<125184, 125217, 1, 34>>}

\* the run of LowerRuns that holds c, if there is one
InRun(c, r) == r[1] <= c /\ c <= r[2] /\ (c - r[1]) % r[3] = 0

\* chr(c).lower(): one character, or two for the dotted capital I (304)
Lower(c) ==
    IF c < 128 THEN IF c \in 65..90 THEN <<c + 32>> ELSE <<c>>
    ELSE IF c = 304 THEN <<105, 775>>
    ELSE IF \E r \in LowerRuns : InRun(c, r)
         THEN <<c + (CHOOSE r \in LowerRuns : InRun(c, r))[4]>>
         ELSE <<c>>

\* the case-ignorable characters, which str.lower() skips around a capital sigma
CaseIgnorableRanges ==
    {<<39, 39>>, <<46, 46>>, <<58, 58>>, <<94, 94>>, <<96, 96>>, <<168, 168>>, <<173,
     173>>, <<175, 175>>, <<180, 180>>, <<183, 184>>, <<688, 879>>, <<884, 885>>, <<890,
     890>>, <<900, 901>>, <<903, 903>>, <<1155, 1161>>, <<1369, 1369>>, <<1375, 1375>>,
     <<1425, 1469>>, <<1471, 1471>>, <<1473, 1474>>, <<1476, 1477>>, <<1479, 1479>>,
     <<1524, 1524>>, <<1536, 1541>>, <<1552, 1562>>, <<1564, 1564>>, <<1600, 1600>>,
     <<1611, 1631>>, <<1648, 1648>>, <<1750, 1757>>, <<1759, 1768>>, <<1770, 1773>>,
     <<1807, 1807>>, <<1809, 1809>>, <<1840, 1866>>, <<1958, 1968>>, <<2027, 2037>>,
     <<2042, 2042>>, <<2045, 2045>>, <<2070, 2093>>, <<2137, 2139>>, <<2184, 2184>>,
     <<2192, 2193>>, <<2200, 2207>>, <<2249, 2306>>, <<2362, 2362>>, <<2364, 2364>>,
     <<2369, 2376>>, <<2381, 2381>>, <<2385, 2391>>, <<2402, 2403>>, <<2417, 2417>>,
     <<2433, 2433>>, <<2492, 2492>>, <<2497, 2500>>, <<2509, 2509>>, <<2530, 2531>>,
     <<2558, 2558>>, <<2561, 2562>>, <<2620, 2620>>, <<2625, 2626>>, <<2631, 2632>>,
     <<2635, 2637>>, <<2641, 2641>>, <<2672, 2673>>, <<2677, 2677>>, <<2689, 2690>>,
     <<2748, 2748>>, <<2753, 2757>>, <<2759, 2760>>, <<2765, 2765>>, <<2786, 2787>>,
     <<2810, 2815>>, <<2817, 2817>>, <<2876, 2876>>, <<2879, 2879>>, <<2881, 2884>>,
     <<2893, 2893>>, <<2901, 2902>>, <<2914, 2915>>, <<2946, 2946>>, <<3008, 3008>>,
     <<3021, 3021>>, <<3072, 3072>>, <<3076, 3076>>, <<3132, 3132>>, <<3134, 3136>>,
     <<3142, 3144>>, <<3146, 3149>>, <<3157, 3158>>, <<3170, 3171>>, <<3201, 3201>>,
     <<3260, 3260>>, <<3263, 3263>>, <<3270, 3270>>, <<3276, 3277>>, <<3298, 3299>>,
     <<3328, 3329>>, <<3387, 3388>>, <<3393, 3396>>, <<3405, 3405>>, <<3426, 3427>>,
     <<3457, 3457>>, <<3530, 3530>>, <<3538, 3540>>, <<3542, 3542>>, <<3633, 3633>>,
     <<3636, 3642>>, <<3654, 3662>>, <<3761, 3761>>, <<3764, 3772>>, <<3782, 3782>>,
     <<3784, 3789>>, <<3864, 3865>>, <<3893, 3893>>, <<3895, 3895>>, <<3897, 3897>>,
     <<3953, 3966>>, <<3968, 3972>>, <<3974, 3975>>, <<3981, 3991>>, <<3993, 4028>>,
     <<4038, 4038>>, <<4141, 4144>>, <<4146, 4151>>, <<4153, 4154>>, <<4157, 4158>>,
     <<4184, 4185>>, <<4190, 4192>>, <<4209, 4212>>, <<4226, 4226>>, <<4229, 4230>>,
     <<4237, 4237>>, <<4253, 4253>>, <<4348, 4348>>, <<4957, 4959>>, <<5906, 5908>>,
     <<5938, 5939>>, <<5970, 5971>>, <<6002, 6003>>, <<6068, 6069>>, <<6071, 6077>>,
     <<6086, 6086>>, <<6089, 6099>>, <<6103, 6103>>, <<6109, 6109>>, <<6155, 6159>>,
     <<6211, 6211>>, <<6277, 6278>>, <<6313, 6313>>, <<6432, 6434>>, <<6439, 6440>>,
     <<6450, 6450>>, <<6457, 6459>>, <<6679, 6680>>, <<6683, 6683>>, <<6742, 6742>>,
     <<6744, 6750>>, <<6752, 6752>>, <<6754, 6754>>, <<6757, 6764>>, <<6771, 6780>>,
     <<6783, 6783>>, <<6823, 6823>>, <<6832, 6862>>, <<6912, 6915>>, <<6964, 6964>>,
     <<6966, 6970>>, <<6972, 6972>>, <<6978, 6978>>, <<7019, 7027>>, <<7040, 7041>>,
     <<7074, 7077>>, <<7080, 7081>>, <<7083, 7085>>, <<7142, 7142>>, <<7144, 7145>>,
     <<7149, 7149>>, <<7151, 7153>>, <<7212, 7219>>, <<7222, 7223>>, <<7288, 7293>>,
     <<7376, 7378>>, <<7380, 7392>>, <<7394, 7400>>, <<7405, 7405>>, <<7412, 7412>>,
     <<7416, 7417>>, <<7468, 7530>>, <<7544, 7544>>, <<7579, 7679>>, <<8125, 8125>>,
     <<8127, 8129>>, <<8141, 8143>>, <<8157, 8159>>, <<8173, 8175>>, <<8189, 8190>>,
     <<8203, 8207>>, <<8216, 8217>>, <<8228, 8228>>, <<8231, 8231>>, <<8234, 8238>>,
     <<8288, 8292>>, <<8294, 8303>>, <<8305, 8305>>, <<8319, 8319>>, <<8336, 8348>>,
     <<8400, 8432>>, <<11388, 11389>>, <<11503, 11505>>, <<11631, 11631>>, <<11647,
     11647>>, <<11744, 11775>>, <<11823, 11823>>, <<12293, 12293>>, <<12330, 12333>>,
     <<12337, 12341>>, <<12347, 12347>>, <<12441, 12446>>, <<12540, 12542>>, <<40981,
     40981>>, <<42232, 42237>>, <<42508, 42508>>, <<42607, 42610>>, <<42612, 42621>>,
     <<42623, 42623>>, <<42652, 42655>>, <<42736, 42737>>, <<42752, 42785>>, <<42864,
     42864>>, <<42888, 42890>>, <<42994, 42996>>, <<43000, 43001>>, <<43010, 43010>>,
     <<43014, 43014>>, <<43019, 43019>>, <<43045, 43046>>, <<43052, 43052>>, <<43204,
     43205>>, <<43232, 43249>>, <<43263, 43263>>, <<43302, 43309>>, <<43335, 43345>>,
     <<43392, 43394>>, <<43443, 43443>>, <<43446, 43449>>, <<43452, 43453>>, <<43471,
     43471>>, <<43493, 43494>>, <<43561, 43566>>, <<43569, 43570>>, <<43573, 43574>>,
     <<43587, 43587>>, <<43596, 43596>>, <<43632, 43632>>, <<43644, 43644>>, <<43696,
     43696>>, <<43698, 43700>>, <<43703, 43704>>, <<43710, 43711>>, <<43713, 43713>>,
     <<43741, 43741>>, <<43756, 43757>>, <<43763, 43764>>, <<43766, 43766>>, <<43867,
     43871>>, <<43881, 43883>>, <<44005, 44005>>, <<44008, 44008>>, <<44013, 44013>>,
     <<64286, 64286>>, <<64434, 64450>>, <<65024, 65039>>, <<65043, 65043>>, <<65056,
     65071>>, <<65106, 65106>>, <<65109, 65109>>, <<65279, 65279>>, <<65287, 65287>>,
     <<65294, 65294>>, <<65306, 65306>>, <<65342, 65342>>, <<65344, 65344>>, <<65392,
     65392>>, <<65438, 65439>>, <<65507, 65507>>, <<65529, 65531>>, <<66045, 66045>>,
     <<66272, 66272>>, <<66422, 66426>>, <<67456, 67461>>, <<67463, 67504>>, <<67506,
     67514>>, <<68097, 68099>>, <<68101, 68102>>, <<68108, 68111>>, <<68152, 68154>>,
     <<68159, 68159>>, <<68325, 68326>>, <<68900, 68903>>, <<69291, 69292>>, <<69446,
     69456>>, <<69506, 69509>>, <<69633, 69633>>, <<69688, 69702>>, <<69744, 69744>>,
     <<69747, 69748>>, <<69759, 69761>>, <<69811, 69814>>, <<69817, 69818>>, <<69821,
     69821>>, <<69826, 69826>>, <<69837, 69837>>, <<69888, 69890>>, <<69927, 69931>>,
     <<69933, 69940>>, <<70003, 70003>>, <<70016, 70017>>, <<70070, 70078>>, <<70089,
     70092>>, <<70095, 70095>>, <<70191, 70193>>, <<70196, 70196>>, <<70198, 70199>>,
     <<70206, 70206>>, <<70367, 70367>>, <<70371, 70378>>, <<70400, 70401>>, <<70459,
     70460>>, <<70464, 70464>>, <<70502, 70508>>, <<70512, 70516>>, <<70712, 70719>>,
     <<70722, 70724>>, <<70726, 70726>>, <<70750, 70750>>, <<70835, 70840>>, <<70842,
     70842>>, <<70847, 70848>>, <<70850, 70851>>, <<71090, 71093>>, <<71100, 71101>>,
     <<71103, 71104>>, <<71132, 71133>>, <<71219, 71226>>, <<71229, 71229>>, <<71231,
     71232>>, <<71339, 71339>>, <<71341, 71341>>, <<71344, 71349>>, <<71351, 71351>>,
     <<71453, 71455>>, <<71458, 71461>>, <<71463, 71467>>, <<71727, 71735>>, <<71737,
     71738>>, <<71995, 71996>>, <<71998, 71998>>, <<72003, 72003>>, <<72148, 72151>>,
     <<72154, 72155>>, <<72160, 72160>>, <<72193, 72202>>, <<72243, 72248>>, <<72251,
     72254>>, <<72263, 72263>>, <<72273, 72278>>, <<72281, 72283>>, <<72330, 72342>>,
     <<72344, 72345>>, <<72752, 72758>>, <<72760, 72765>>, <<72767, 72767>>, <<72850,
     72871>>, <<72874, 72880>>, <<72882, 72883>>, <<72885, 72886>>, <<73009, 73014>>,
     <<73018, 73018>>, <<73020, 73021>>, <<73023, 73029>>, <<73031, 73031>>, <<73104,
     73105>>, <<73109, 73109>>, <<73111, 73111>>, <<73459, 73460>>, <<78896, 78904>>,
     <<92912, 92916>>, <<92976, 92982>>, <<92992, 92995>>, <<94031, 94031>>, <<94095,
     94111>>, <<94176, 94177>>, <<94179, 94180>>, <<110576, 110579>>, <<110581, 110587>>,
     <<110589, 110590>>, <<113821, 113822>>, <<113824, 113827>>, <<118528, 118573>>,
     <<118576, 118598>>, <<119143, 119145>>, <<119155, 119170>>, <<119173, 119179>>,
     <<119210, 119213>>, <<119362, 119364>>, <<121344, 121398>>, <<121403, 121452>>,
     <<121461, 121461>>, <<121476, 121476>>, <<121499, 121503>>, <<121505, 121519>>,
     <<122880, 122886>>, <<122888, 122904>>, <<122907, 122913>>, <<122915, 122916>>,
     <<122918, 122922>>, <<123184, 123197>>, <<123566, 123566>>, <<123628, 123631>>,
     <<125136, 125142>>, <<125252, 125259>>, <<127995, 127999>>, <<917505, 917505>>,
     <<917536, 917631>>, <<917760, 917999>>}

\* the cased characters that are not case-ignorable
CasedRanges ==
    {<<65, 90>>, <<97, 122>>, <<170, 170>>, <<181, 181>>, <<186, 186>>, <<192, 214>>,
     <<216, 246>>, <<248, 442>>, <<444, 447>>, <<452, 659>>, <<661, 687>>, <<880, 883>>,
     <<886, 887>>, <<891, 893>>, <<895, 895>>, <<902, 902>>, <<904, 906>>, <<908, 908>>,
     <<910, 929>>, <<931, 1013>>, <<1015, 1153>>, <<1162, 1327>>, <<1329, 1366>>, <<1376,
     1416>>, <<4256, 4293>>, <<4295, 4295>>, <<4301, 4301>>, <<4304, 4346>>, <<4349,
     4351>>, <<5024, 5109>>, <<5112, 5117>>, <<7296, 7304>>, <<7312, 7354>>, <<7357,
     7359>>, <<7424, 7467>>, <<7531, 7543>>, <<7545, 7578>>, <<7680, 7957>>, <<7960,
     7965>>, <<7968, 8005>>, <<8008, 8013>>, <<8016, 8023>>, <<8025, 8025>>, <<8027,
     8027>>, <<8029, 8029>>, <<8031, 8061>>, <<8064, 8116>>, <<8118, 8124>>, <<8126,
     8126>>, <<8130, 8132>>, <<8134, 8140>>, <<8144, 8147>>, <<8150, 8155>>, <<8160,
     8172>>, <<8178, 8180>>, <<8182, 8188>>, <<8450, 8450>>, <<8455, 8455>>, <<8458,
     8467>>, <<8469, 8469>>, <<8473, 8477>>, <<8484, 8484>>, <<8486, 8486>>, <<8488,
     8488>>, <<8490, 8493>>, <<8495, 8500>>, <<8505, 8505>>, <<8508, 8511>>, <<8517,
     8521>>, <<8526, 8526>>, <<8544, 8575>>, <<8579, 8580>>, <<9398, 9449>>, <<11264,
     11387>>, <<11390, 11492>>, <<11499, 11502>>, <<11506, 11507>>, <<11520, 11557>>,
     <<11559, 11559>>, <<11565, 11565>>, <<42560, 42605>>, <<42624, 42651>>, <<42786,
     42863>>, <<42865, 42887>>, <<42891, 42894>>, <<42896, 42954>>, <<42960, 42961>>,
     <<42963, 42963>>, <<42965, 42969>>, <<42997, 42998>>, <<43002, 43002>>, <<43824,
     43866>>, <<43872, 43880>>, <<43888, 43967>>, <<64256, 64262>>, <<64275, 64279>>,
     <<65313, 65338>>, <<65345, 65370>>, <<66560, 66639>>, <<66736, 66771>>, <<66776,
     66811>>, <<66928, 66938>>, <<66940, 66954>>, <<66956, 66962>>, <<66964, 66965>>,
     <<66967, 66977>>, <<66979, 66993>>, <<66995, 67001>>, <<67003, 67004>>, <<68736,
     68786>>, <<68800, 68850>>, <<71840, 71903>>, <<93760, 93823>>, <<119808, 119892>>,
     <<119894, 119964>>, <<119966, 119967>>, <<119970, 119970>>, <<119973, 119974>>,
     <<119977, 119980>>, <<119982, 119993>>, <<119995, 119995>>, <<119997, 120003>>,
     <<120005, 120069>>, <<120071, 120074>>, <<120077, 120084>>, <<120086, 120092>>,
     <<120094, 120121>>, <<120123, 120126>>, <<120128, 120132>>, <<120134, 120134>>,
     <<120138, 120144>>, <<120146, 120485>>, <<120488, 120512>>, <<120514, 120538>>,
     <<120540, 120570>>, <<120572, 120596>>, <<120598, 120628>>, <<120630, 120654>>,
     <<120656, 120686>>, <<120688, 120712>>, <<120714, 120744>>, <<120746, 120770>>,
     <<120772, 120779>>, <<122624, 122633>>, <<122635, 122654>>, <<125184, 125251>>,
     <<127280, 127305>>, <<127312, 127337>>, <<127344, 127369>>}

IsCaseIgnorable(c) == c >= 39 /\ InRanges(c, CaseIgnorableRanges)
IsCased(c) == c >= 65 /\ InRanges(c, CasedRanges)

\* the capital sigma at s[i] is final: a cased character before it and none after it,
\* the case-ignorable characters skipped
FinalSigma(s, i) ==
    LET before == {j \in 1..(i - 1) : ~IsCaseIgnorable(s[j])}
        after == {j \in (i + 1)..Len(s) : ~IsCaseIgnorable(s[j])}
    IN  /\ before # {}
        /\ IsCased(s[CHOOSE j \in before : \A k \in before : k <= j])
        /\ after = {} \/ ~IsCased(s[CHOOSE j \in after : \A k \in after : j <= k])

RECURSIVE LowerFrom(_, _)
LowerFrom(s, i) ==
    IF i > Len(s) THEN <<>>
    ELSE (IF s[i] = 931 THEN IF FinalSigma(s, i) THEN <<962>> ELSE <<963>>
          ELSE Lower(s[i])) \o LowerFrom(s, i + 1)

\* str.lower()
LowerStr(s) == LowerFrom(s, 1)

RECURSIVE LStrip(_)
LStrip(s) == IF s # <<>> /\ IsSpace(Head(s)) THEN LStrip(Tail(s)) ELSE s

RECURSIVE RStrip(_)
RStrip(s) ==
    IF s # <<>> /\ IsSpace(s[Len(s)]) THEN RStrip(SubSeq(s, 1, Len(s) - 1)) ELSE s

\* str.strip()
Strip(s) == RStrip(LStrip(s))

\* " ".join(s.split()): words joined by single spaces
RECURSIVE JoinFrom(_, _)
JoinFrom(s, acc) ==
    IF s = <<>> THEN RStrip(acc)
    ELSE IF IsSpace(Head(s))
         THEN IF acc = <<>> \/ acc[Len(acc)] = 32
              THEN JoinFrom(Tail(s), acc)
              ELSE JoinFrom(Tail(s), Append(acc, 32))
         ELSE JoinFrom(Tail(s), Append(acc, Head(s)))

\* " ".join(text.strip().lower().split()), in front of the words of acc
JoinWords(s, acc) == JoinFrom(LowerStr(Strip(s)), acc)

\* a character the pattern [^a-z0-9\s] leaves in place
Kept(c) == c \in 97..122 \/ c \in 48..57 \/ IsSpace(c)

normalize_phrase(text) == Strip(SelectSeq(JoinWords(text, <<>>), Kept))

\* the decimal digits of Unicode, as runs <<first, last>> that count 0 to 9 from first
DigitRuns ==
    {<<48, 57>>, <<1632, 1641>>, <<1776, 1785>>, <<1984, 1993>>, <<2406, 2415>>, <<2534,
     2543>>, <<2662, 2671>>, <<2790, 2799>>, <<2918, 2927>>, <<3046, 3055>>, <<3174,
     3183>>, <<3302, 3311>>, <<3430, 3439>>, <<3558, 3567>>, <<3664, 3673>>, <<3792,
     3801>>, <<3872, 3881>>, <<4160, 4169>>, <<4240, 4249>>, <<6112, 6121>>, <<6160,
     6169>>, <<6470, 6479>>, <<6608, 6617>>, <<6784, 6793>>, <<6800, 6809>>, <<6992,
     7001>>, <<7088, 7097>>, <<7232, 7241>>, <<7248, 7257>>, <<42528, 42537>>, <<43216,
     43225>>, <<43264, 43273>>, <<43472, 43481>>, <<43504, 43513>>, <<43600, 43609>>,
     <<44016, 44025>>, <<65296, 65305>>, <<66720, 66729>>, <<68912, 68921>>, <<69734,
     69743>>, <<69872, 69881>>, <<69942, 69951>>, <<70096, 70105>>, <<70384, 70393>>,
     <<70736, 70745>>, <<70864, 70873>>, <<71248, 71257>>, <<71360, 71369>>, <<71472,
     71481>>, <<71904, 71913>>, <<72016, 72025>>, <<72784, 72793>>, <<73040, 73049>>,
     <<73120, 73129>>, <<92768, 92777>>, <<92864, 92873>>, <<93008, 93017>>, <<120782,
     120831>>, <<123200, 123209>>, <<123632, 123641>>, <<125264, 125273>>, <<130032,
     130041>>}

IsDigit(c) == IF c < 128 THEN c \in 48..57 ELSE InRanges(c, DigitRuns)

\* the value of a decimal digit
DigitOf(c) ==
    IF c < 128 THEN c - 48
    ELSE (c - (CHOOSE r \in DigitRuns : r[1] <= c /\ c <= r[2])[1]) % 10

\* the white space int() skips at both ends: that of ASCII, the separators 28..31
\* left out, and every space outside ASCII
IntSpace(c) == c \in (9..13) \cup {32} \/ (c >= 127 /\ IsSpace(c))

RECURSIVE IntLStrip(_)
IntLStrip(s) == IF s # <<>> /\ IntSpace(Head(s)) THEN IntLStrip(Tail(s)) ELSE s

RECURSIVE IntRStrip(_)
IntRStrip(s) ==
    IF s # <<>> /\ IntSpace(s[Len(s)]) THEN IntRStrip(SubSeq(s, 1, Len(s) - 1)) ELSE s

\* the digits of int(): decimal digits, single underscores only between digits
DigitsOk(s) ==
    \A i \in DOMAIN s :
        \/ IsDigit(s[i])
        \/ s[i] = 95 /\ 1 < i /\ i < Len(s) /\ IsDigit(s[i - 1]) /\ IsDigit(s[i + 1])

\* the places of the digits other than zero
NonZeroAt(s) == {i \in DOMAIN s : s[i] # 95 /\ DigitOf(s[i]) # 0}

\* the digits from the first that is not zero on: the zeros before it add nothing
Significant(s) ==
    IF NonZeroAt(s) = {} THEN <<>>
    ELSE SubSeq(s, CHOOSE i \in NonZeroAt(s) : \A j \in NonZeroAt(s) : i <= j, Len(s))

RECURSIVE DigitsValue(_, _)
DigitsValue(s, acc) ==
    IF s = <<>> THEN acc
    ELSE IF Head(s) = 95 THEN DigitsValue(Tail(s), acc)
    ELSE DigitsValue(Tail(s), 10 * acc + DigitOf(Head(s)))

\* the most digits int() converts (sys.get_int_max_str_digits()): it raises
\* ValueError for a text of more
MaxStrDigits == 4300

\* the digits of a text that int() counts against the limit: all but the underscores
DigitCount(s) == Cardinality({i \in DOMAIN s : s[i] # 95})

\* int(t) of a text with its white space and its sign taken off, or default
ParseDigits(body, negative, default) ==
    IF body # <<>> /\ DigitsOk(body) /\ DigitCount(body) <= MaxStrDigits
    THEN IF negative THEN 0 - DigitsValue(Significant(body), 0)
         ELSE DigitsValue(Significant(body), 0)
    ELSE default

\* int(t) of a text with its white space taken off: an optional sign, then digits
ParseInt(t, default) ==
    IF t # <<>> /\ Head(t) \in {43, 45}
    THEN ParseDigits(Tail(t), Head(t) = 45, default)
    ELSE ParseDigits(t, FALSE, default)

\* safe_int: int(text), or default when int() raises ValueError
safe_int(text, default) ==
    CHOOSE n \in {ParseInt(t, default) : t \in {IntRStrip(IntLStrip(text))}} : TRUE

\* str(n) of an integer
RECURSIVE NatStr(_)
NatStr(n) == IF n < 10 THEN <<48 + n>> ELSE Append(NatStr(n \div 10), 48 + (n % 10))

IntStr(n) == IF n < 0 THEN <<45>> \o NatStr(0 - n) ELSE NatStr(n)

\* a < b for str: by code point, a proper prefix first
RECURSIVE StrLess(_, _)
StrLess(a, b) ==
    IF b = <<>> THEN FALSE
    ELSE IF a = <<>> THEN TRUE
    ELSE IF Head(a) # Head(b) THEN Head(a) < Head(b)
    ELSE StrLess(Tail(a), Tail(b))

\* `a in b` for str
IsSubstring(a, b) ==
    \E i \in 0..(Len(b) - Len(a)) : SubSeq(b, i + 1, i + Len(a)) = a

----------------------------------------------------------------------------
(* difflib.SequenceMatcher(None, a, b).ratio(): no junk (isjunk is None),   *)
(* and autojunk, the default, which sets popular elements aside            *)

\* SequenceMatcher.__chain_b: when b has 200 elements or more, an element found more
\* than len(b) // 100 + 1 times in b is popular and is left out of b2j
bpopular(b) ==
    IF Len(b) < 200 THEN {}
    ELSE {elt \in {b[j] : j \in DOMAIN b} :
              Cardinality({j \in DOMAIN b : b[j] = elt}) > Len(b) \div 100 + 1}

\* length of the common run of a from i and b from j (1-based), inside the windows
RECURSIVE RunLen(_, _, _, _, _, _)
RunLen(a, b, i, j, ahi, bhi) ==
    IF i <= ahi /\ j <= bhi /\ a[i] = b[j]
    THEN 1 + RunLen(a, b, i + 1, j + 1, ahi, bhi)
    ELSE 0

\* the same of the elements of b2j only, which is what j2len counts: a popular
\* element ends the run
RECURSIVE ChainLen(_, _, _, _, _, _, _)
ChainLen(a, b, i, j, ahi, bhi, popular) ==
    IF i <= ahi /\ j <= bhi /\ a[i] = b[j] /\ b[j] \notin popular
    THEN 1 + ChainLen(a, b, i + 1, j + 1, ahi, bhi, popular)
    ELSE 0

\* the number of equal elements before a[i] and b[j], pair by pair, inside the windows
RECURSIVE BackLen(_, _, _, _, _, _)
BackLen(a, b, i, j, alo, blo) ==
    IF i > alo /\ j > blo /\ a[i - 1] = b[j - 1]
    THEN 1 + BackLen(a, b, i - 1, j - 1, alo, blo)
    ELSE 0

\* find_longest_match on a[alo..ahi], b[blo..bhi] (1-based, inclusive): the longest
\* block of elements of b2j, the one starting earliest in a, then earliest in b,
\* extended at both ends over equal elements, popular ones too; <<i, j, size>>
\* given each start's run length, the start of a run of length `best` that comes
\* first in a, then first in b
EarliestOf(runs, best) ==
    CHOOSE c \in DOMAIN runs :
        /\ runs[c] = best
        /\ \A d \in DOMAIN runs :
               runs[d] = best => (c[1] < d[1] \/ (c[1] = d[1] /\ c[2] <= d[2]))

LongestOf(runs) == CHOOSE k \in {runs[c] : c \in DOMAIN runs} :
                       \A c \in DOMAIN runs : runs[c] <= k

PickMatch(runs, best, alo, blo) ==
    IF best = 0 THEN <<alo, blo, 0>>
    ELSE <<EarliestOf(runs, best)[1], EarliestOf(runs, best)[2], best>>

PickLongest(runs, alo, blo) ==
    IF DOMAIN runs = {} THEN <<alo, blo, 0>>
    ELSE PickMatch(runs, LongestOf(runs), alo, blo)

\* the block of elements of b2j
LongestChain(a, b, alo, ahi, blo, bhi, popular) ==
    PickLongest([c \in (alo..ahi) \X (blo..bhi) |->
                    ChainLen(a, b, c[1], c[2], ahi, bhi, popular)],
                alo, blo)

\* the two loops that extend the block m, first back, then forth
Extended(a, b, alo, ahi, blo, bhi, m) ==
    CHOOSE match \in {<<m[1] - back, m[2] - back, back + m[3] + forth>> :
                         back \in {BackLen(a, b, m[1], m[2], alo, blo)},
                         forth \in {RunLen(a, b, m[1] + m[3], m[2] + m[3], ahi, bhi)}} :
        TRUE

find_longest_match(a, b, alo, ahi, blo, bhi) ==
    CHOOSE match \in {Extended(a, b, alo, ahi, blo, bhi, m) :
                         m \in {LongestChain(a, b, alo, ahi, blo, bhi, popular) :
                                   popular \in {bpopular(b)}}} : TRUE

\* the total size of get_matching_blocks(): the longest block, then the blocks to
\* its left and to its right
RECURSIVE MatchingSize(_, _, _, _, _, _)
RECURSIVE SizeAround(_, _, _, _, _, _, _)
SizeAround(a, b, alo, ahi, blo, bhi, m) ==
    IF m[3] = 0 THEN 0
    ELSE m[3]
         + (IF alo < m[1] /\ blo < m[2]
            THEN MatchingSize(a, b, alo, m[1] - 1, blo, m[2] - 1) ELSE 0)
         + (IF m[1] + m[3] <= ahi /\ m[2] + m[3] <= bhi
            THEN MatchingSize(a, b, m[1] + m[3], ahi, m[2] + m[3], bhi) ELSE 0)

MatchingSize(a, b, alo, ahi, blo, bhi) ==
    CHOOSE size \in {SizeAround(a, b, alo, ahi, blo, bhi, m) :
                        m \in {find_longest_match(a, b, alo, ahi, blo, bhi)}} : TRUE

\* ratio() >= 0.86, where ratio() is 2.0 * matches / (len(a) + len(b))
RatioAtLeastThreshold(a, b) ==
    \/ Len(a) + Len(b) = 0
    \/ 100 * MatchingSize(a, b, 1, Len(a), 1, Len(b)) >= 43 * (Len(a) + Len(b))

----------------------------------------------------------------------------
(* dict operations on vote_counts, which keeps insertion order *)

Keys(vc) == {vc[i].phrase : i \in DOMAIN vc}

\* vc.get(p, default)
Get(vc, p, default) ==
    IF p \in Keys(vc)
    THEN vc[CHOOSE i \in DOMAIN vc : vc[i].phrase = p].votes
    ELSE default

\* vc[p] = n: an existing key keeps its place, a new key goes last
Put(vc, p, n) ==
    IF p \in Keys(vc)
    THEN [i \in DOMAIN vc |-> IF vc[i].phrase = p THEN [phrase |-> p, votes |-> n] ELSE vc[i]]
    ELSE Append(vc, [phrase |-> p, votes |-> n])

\* vc.pop(p, None)
Pop(vc, p) == LET keep(e) == e.phrase # p IN SelectSeq(vc, keep)

\* uv.get(username)
UserGet(uv, username) == IF username \in DOMAIN uv THEN uv[username] ELSE NoneVal

\* uv[username] = phrase
UserPut(uv, username, phrase) ==
    [u \in DOMAIN uv \cup {username} |-> IF u = username THEN phrase ELSE uv[u]]

\* sum(d.values())
RECURSIVE SumVotes(_)
SumVotes(vc) == IF vc = <<>> THEN 0 ELSE Head(vc).votes + SumVotes(Tail(vc))

----------------------------------------------------------------------------
(* App.find_matching_phrase *)

\* whether `existing` is returned for `phrase`: equal, a substring either way, or similar
Matches(phrase, existing) ==
    \/ phrase = existing
    \/ IsSubstring(phrase, existing) \/ IsSubstring(existing, phrase)
    \/ RatioAtLeastThreshold(phrase, existing)

\* the loop taken from the newest phrase back to the oldest
RECURSIVE LastMatch(_, _, _)
LastMatch(vc, phrase, ignore_phrase) ==
    IF vc = <<>> THEN NoneVal
    ELSE IF /\ ignore_phrase = NoneVal \/ vc[Len(vc)].phrase # ignore_phrase
            /\ Matches(phrase, vc[Len(vc)].phrase)
         THEN vc[Len(vc)].phrase
         ELSE LastMatch(SubSeq(vc, 1, Len(vc) - 1), phrase, ignore_phrase)

RECURSIVE FirstMatch(_, _, _)
FirstMatch(vc, phrase, ignore_phrase) ==
    IF vc = <<>> THEN NoneVal
    ELSE IF ignore_phrase # NoneVal /\ Head(vc).phrase = ignore_phrase
         THEN FirstMatch(Tail(vc), phrase, ignore_phrase)
    ELSE IF Matches(phrase, Head(vc).phrase) THEN Head(vc).phrase
    ELSE FirstMatch(Tail(vc), phrase, ignore_phrase)

find_matching_phrase(vc, phrase, ignore_phrase) ==
    IF phrase = NoneVal THEN NoneVal ELSE FirstMatch(vc, phrase, ignore_phrase)

\* `matched or phrase`
OrElse(matched, phrase) == IF matched # NoneVal THEN matched ELSE phrase

----------------------------------------------------------------------------
(* App.get_top_votes and the table *)


\* the key (-votes, phrase) of sorted()
KeyLess(e, f) == e.votes > f.votes \/ (e.votes = f.votes /\ StrLess(e.phrase, f.phrase))

\* vc.items() as inserted, with no sort
ItemsAsInserted(vc) == vc

\* sorted(vc.items(), key=lambda x: (-x[1], x[0])); the keys of a dict are distinct
RECURSIVE SortedItems(_)
SortedItems(vc) ==
    IF vc = <<>> THEN <<>>
    ELSE LET i == CHOOSE k \in DOMAIN vc :
                      \A l \in DOMAIN vc : l = k \/ KeyLess(vc[k], vc[l])
             rest == [k \in 1..(Len(vc) - 1) |-> IF k < i THEN vc[k] ELSE vc[k + 1]]
         IN  <<vc[i]>> \o SortedItems(rest)

Max(a, b) == IF a >= b THEN a ELSE b
Min(a, b) == IF a <= b THEN a ELSE b

\* items[:max_phrases]
FirstItems(items, max_phrases) == SubSeq(items, 1, Min(max_phrases, Len(items)))

\* get_top_votes with the text max_phrases_var.get() returned
top_votes_with(vc, max_text) ==
    FirstItems(SortedItems(vc), Max(1, safe_int(max_text, 10)))

get_top_votes(vc) == top_votes_with(vc, max_phrases_var)

\* the rows of the tree for the sorted items: phrase and votes as text
RowsOf(items) ==
    [i \in DOMAIN items |-> [phrase |-> items[i].phrase, votes |-> IntStr(items[i].votes)]]

\* the rows refresh_table_from_votes puts in the tree: every phrase, sorted
TreeRows(vc) == RowsOf(SortedItems(vc))

----------------------------------------------------------------------------
(* The ledger operations, as functions of the ledger *)

\* a consume_vote that never takes the early return
SameVoteNever(previous_phrase, target_phrase) == FALSE

\* consume_vote, `if previous_phrase == target_phrase: return`
SameVote(previous_phrase, target_phrase) == previous_phrase = target_phrase

\* a consume_vote that leaves the previous phrase its vote
DropPreviousKept(vc, previous_phrase) == vc

\* consume_vote, the previous phrase loses a vote and leaves the dict at 0
DropPrevious(vc, previous_phrase) ==
    IF previous_phrase # NoneVal /\ previous_phrase \in Keys(vc)
    THEN LET n == Get(vc, previous_phrase, 0) - 1
         IN  IF n <= 0 THEN Pop(vc, previous_phrase) ELSE Put(vc, previous_phrase, n)
    ELSE vc

\* vc[p] = vc.get(p, 0) + n
AddVotes(vc, p, n) == Put(vc, p, Get(vc, p, 0) + n)

\* the phrase a normalized phrase is counted for: `matched_phrase or phrase`
TargetPhrase(vc, phrase) == OrElse(find_matching_phrase(vc, phrase, NoneVal), phrase)

\* consume_vote from `previous_phrase = self.user_votes.get(username)` on
CountVote(vc, uv, username, previous_phrase, target_phrase) ==
    IF SameVote(previous_phrase, target_phrase)
    THEN [vc |-> vc, uv |-> uv, refreshed |-> FALSE]
    ELSE [vc |-> AddVotes(DropPrevious(vc, previous_phrase), target_phrase, 1),
          uv |-> UserPut(uv, username, target_phrase),
          refreshed |-> TRUE]

\* a consume_vote that counts votes whether voting is active or not
ApplyVoteAlways(vc, uv, active, username, phrase) ==
    IF username = <<>> \/ phrase = <<>>
    THEN [vc |-> vc, uv |-> uv, refreshed |-> FALSE]
    ELSE CountVote(vc, uv, username, UserGet(uv, username), TargetPhrase(vc, phrase))

\* consume_vote with the username stripped and lowered and the message normalized
ApplyVote(vc, uv, active, username, phrase) ==
    IF ~active \/ username = <<>> \/ phrase = <<>>
    THEN [vc |-> vc, uv |-> uv, refreshed |-> FALSE]
    ELSE CountVote(vc, uv, username, UserGet(uv, username), TargetPhrase(vc, phrase))

\* consume_vote: the ledger it leaves, and whether it refreshed the table
consume_vote(vc, uv, active, username_raw, message) ==
    ApplyVote(vc, uv, active, LowerStr(Strip(username_raw)), normalize_phrase(message))

\* an add_or_update_segment that keeps a phrase whose tally is 0
DropIfEmptyKept(vc, target_phrase) == vc

\* add_or_update_segment, `if self.vote_counts.get(target_phrase, 0) <= 0: pop`
DropIfEmpty(vc, target_phrase) ==
    IF Get(vc, target_phrase, 0) <= 0 THEN Pop(vc, target_phrase) ELSE vc

\* add_or_update_segment from `if matched_phrase and matched_phrase != phrase` on
SetSegment(vc, phrase, votes, matched_phrase) ==
    IF matched_phrase # NoneVal /\ matched_phrase # phrase
    THEN DropIfEmpty(Put(vc, matched_phrase, Max(0, Get(vc, matched_phrase, 0) + votes)),
                     matched_phrase)
    ELSE DropIfEmpty(Put(vc, phrase, Max(0, votes)), phrase)

\* add_or_update_segment with a non-empty normalized phrase and the votes parsed
AddOrUpdate(vc, phrase, votes) ==
    SetSegment(vc, phrase, votes, find_matching_phrase(vc, phrase, NoneVal))

add_or_update_segment(vc, text, votes_text) ==
    AddOrUpdate(vc, normalize_phrase(text), safe_int(votes_text, 1))

\* remove_selected: every selected row's phrase is popped
RECURSIVE PopAll(_, _)
PopAll(vc, phrases) ==
    IF phrases = {} THEN vc
    ELSE LET p == CHOOSE q \in phrases : TRUE
         IN  PopAll(Pop(vc, p), phrases \ {p})

\* the votes go to phrase_new, whatever it matches
FoldIntoNew(vc, phrase_old, votes_old, phrase_new) == AddVotes(vc, phrase_new, votes_old)

\* save_edit, phrase column, once phrase_old is popped: the votes go to the match
\* among the other phrases, or to phrase_new
FoldInto(vc, phrase_old, votes_old, phrase_new) ==
    AddVotes(vc, OrElse(find_matching_phrase(vc, phrase_new, phrase_old), phrase_new),
             votes_old)

\* save_edit on the phrase column, with a non-empty phrase_new
save_edit_phrase(vc, phrase_old, votes_old, phrase_new) ==
    IF phrase_new # phrase_old
    THEN FoldInto(Pop(vc, phrase_old), phrase_old, votes_old, phrase_new)
    ELSE vc

\* save_edit, votes column, with votes_new parsed
SetVotes(vc, phrase_old, votes_new) ==
    IF phrase_old \in Keys(vc)
    THEN IF votes_new <= 0 THEN Pop(vc, phrase_old) ELSE Put(vc, phrase_old, votes_new)
    ELSE vc

\* save_edit on the votes column
save_edit_votes(vc, phrase_old, votes_old, new_value) ==
    SetVotes(vc, phrase_old, safe_int(new_value, votes_old))

----------------------------------------------------------------------------
(* App.import_segments: the lines of the file *)

\* "SEGMENT" and "USERVOTE"
TagSegment == <<83, 69, 71, 77, 69, 78, 84>>
TagUserVote == <<85, 83, 69, 82, 86, 79, 84, 69>>

\* str.split(sep)
RECURSIVE SplitFrom(_, _, _)
SplitFrom(s, sep, field) ==
    IF s = <<>> THEN <<field>>
    ELSE IF Head(s) = sep THEN <<field>> \o SplitFrom(Tail(s), sep, <<>>)
    ELSE SplitFrom(Tail(s), sep, Append(field, Head(s)))

SplitOn(s, sep) == SplitFrom(s, sep, <<>>)

\* str.rsplit(sep, 1)
RSplitOnce(s, sep) ==
    LET at == {i \in DOMAIN s : s[i] = sep}
        last == CHOOSE i \in at : \A k \in at : k <= i
    IN  IF at = {} THEN <<s>>
        ELSE <<SubSeq(s, 1, last - 1), SubSeq(s, last + 1, Len(s))>>

\* imported[target] = imported.get(target, 0) + votes, for a line that names a
\* phrase and a positive count; the match is looked up in the ledger as it is
AddSegment(acc, vc, phrase, votes) ==
    IF phrase # <<>> /\ votes > 0
    THEN [acc EXCEPT !.imported = AddVotes(@, TargetPhrase(vc, phrase), votes)]
    ELSE acc

\* imported_user_votes[username] = phrase, for a line that names both
AddUserVote(acc, username, phrase) ==
    IF username # <<>> /\ phrase # <<>>
    THEN [acc EXCEPT !.imported_user_votes = UserPut(@, username, phrase)]
    ELSE acc

\* a line as [phrase_raw, votes_raw]: split at its last tab, or else its last space
SplitLegacy(line) ==
    IF \E i \in DOMAIN line : line[i] = 9
    THEN RSplitOnce(line, 9) ELSE RSplitOnce(line, 32)

\* the fields of an untagged line name a segment when there are two of them
AddLegacy(acc, vc, legacy) ==
    IF Len(legacy) # 2 THEN acc
    ELSE AddSegment(acc, vc, normalize_phrase(legacy[1]),
                    safe_int(Strip(legacy[2]), 0))

\* a stripped line that is no comment, with its tab-separated parts
ImportParts(acc, vc, line, parts) ==
    IF Len(parts) >= 3 /\ parts[1] \in {TagSegment, TagUserVote}
    THEN IF parts[1] = TagSegment
         THEN AddSegment(acc, vc, normalize_phrase(parts[2]),
                         safe_int(Strip(parts[3]), 0))
         ELSE AddUserVote(acc, LowerStr(Strip(parts[2])), normalize_phrase(parts[3]))
    ELSE AddLegacy(acc, vc, SplitLegacy(line))

\* one turn of `for raw in f`, with the line stripped
ImportStripped(acc, vc, line) ==
    IF line = <<>> \/ Head(line) = 35 THEN acc
    ELSE ImportParts(acc, vc, line, SplitOn(line, 9))

ImportLine(acc, vc, raw) == ImportStripped(acc, vc, Strip(raw))

RECURSIVE ImportLines(_, _, _)
ImportLines(acc, vc, file) ==
    IF file = <<>> THEN acc
    ELSE ImportLines(ImportLine(acc, vc, Head(file)), vc, Tail(file))

\* the user votes import keeps: those whose phrase is an imported phrase with votes
KeptUserVotes(imported, imported_user_votes) ==
    LET kept == {u \in DOMAIN imported_user_votes :
                    /\ imported_user_votes[u] \in Keys(imported)
                    /\ Get(imported, imported_user_votes[u], 0) > 0}
    IN  IF kept = {} THEN <<>> ELSE [u \in kept |-> imported_user_votes[u]]

\* `for phrase in self.user_votes.values(): if phrase not in self.vote_counts: ... = 1`
RECURSIVE AddMissing(_, _)
AddMissing(vc, phrases) ==
    LET missing == phrases \ Keys(vc)
        first == CHOOSE p \in missing : \A q \in missing : p = q \/ StrLess(p, q)
    IN  IF missing = {} THEN vc ELSE AddMissing(Put(vc, first, 1), phrases)

\* import_segments: the ledger a readable file leaves
\* import_segments after the file is read
ReplaceLedger(imported, uv) ==
    [vc |-> AddMissing(imported, {uv[u] : u \in DOMAIN uv}), uv |-> uv]

ImportRead(acc) ==
    ReplaceLedger(acc.imported, KeptUserVotes(acc.imported, acc.imported_user_votes))

import_segments(vc, file) ==
    ImportRead(ImportLines([imported |-> <<>>, imported_user_votes |-> <<>>], vc, file))

----------------------------------------------------------------------------
(* Inputs *)

\* chat handles as received: "al", " Al", "bo" and a blank one
RawUsers == {<<97, 108>>, <<32, 65, 108>>, <<98, 111>>, <<32>>}

\* one more handle, "cy"
MoreUsers == {<<99, 121>>}

\* chat messages and typed phrases: "pizza", "Piza ", "pizzas!" and "?!"
RawMessages == {<<112, 105, 122, 122, 97>>, <<80, 105, 122, 97, 32>>,
                <<112, 105, 122, 122, 97, 115, 33>>, <<63, 33>>}

\* typed vote counts: "2", " 1", "0", "-1" and "x"
VoteTexts == {<<50>>, <<32, 49>>, <<48>>, <<45, 49>>, <<120>>}

\* lines of an import file: "SEGMENT\tpizza\t2", "SEGMENT\tPiza\t1",
\* "USERVOTE\tAl\tpizza" and "pizzas 1"
FileLines ==
    {TagSegment \o <<9, 112, 105, 122, 122, 97, 9, 50, 10>>,
     TagSegment \o <<9, 80, 105, 122, 97, 9, 49, 10>>,
     TagUserVote \o <<9, 65, 108, 9, 112, 105, 122, 122, 97, 10>>,
     <<112, 105, 122, 122, 97, 115, 32, 49, 10>>}

\* the files of at most MaxImportLines lines
Files == UNION {[1..n -> FileLines] : n \in 0..MaxImportLines}

\* no tally above the bound of the model
WithinBound(vc) == \A i \in DOMAIN vc : vc[i].votes <= MaxVotes

----------------------------------------------------------------------------
(* Floats: the IEEE 754 doubles of rotation, spin_velocity and pointer_details.
   A float is [neg, m, e]: the number m * 2^e, negated when neg, with m a natural
   number of exactly 53 bits, or 0.0 with m zero and e = 0. A natural number of any
   size is the sequence of its digits to base 2^15, the least first, <<>> for 0. *)

Base == 32768
LimbBits == 15
MantBits == 53

(* An operator reads each of its arguments once, through CHOOSE r \in {f(v) : v \in
   {argument}} : TRUE, so that an argument that is itself a long computation is
   carried out once. *)

Limb(a, i) == IF i <= Len(a) THEN a[i] ELSE 0

\* the number without leading zero digits
BTrim(a) ==
    CHOOSE t \in {IF \A i \in DOMAIN x : x[i] = 0 THEN <<>>
                  ELSE SubSeq(x, 1, CHOOSE i \in DOMAIN x :
                                       x[i] # 0 /\ \A j \in (i + 1)..Len(x) : x[j] = 0) :
                     x \in {a}} : TRUE

\* the digits of an int n >= 0, and the int of digits
RECURSIVE BFromIntFrom(_)
BFromIntFrom(n) == IF n < Base THEN (IF n = 0 THEN <<>> ELSE <<n>>)
                   ELSE <<n % Base>> \o BFromIntFrom(n \div Base)

BFromInt(n) == CHOOSE a \in {BFromIntFrom(k) : k \in {n}} : TRUE

RECURSIVE BToIntFrom(_, _)
BToIntFrom(a, i) == IF i > Len(a) THEN 0 ELSE a[i] + Base * BToIntFrom(a, i + 1)

BToInt(a) == CHOOSE n \in {BToIntFrom(x, 1) : x \in {a}} : TRUE

\* -1, 0 or 1 as a is below, equal to or above b, from digit i down
RECURSIVE BCmpFrom(_, _, _)
BCmpFrom(a, b, i) ==
    IF i = 0 THEN 0
    ELSE IF Limb(a, i) < Limb(b, i) THEN 0 - 1
    ELSE IF Limb(a, i) > Limb(b, i) THEN 1
    ELSE BCmpFrom(a, b, i - 1)

BCmp(a, b) ==
    CHOOSE c \in {BCmpFrom(x, y, IF Len(x) >= Len(y) THEN Len(x) ELSE Len(y)) :
                     x \in {a}, y \in {b}} : TRUE

RECURSIVE BAddFrom(_, _, _, _)
BAddFrom(a, b, i, carry) ==
    IF i > Len(a) /\ i > Len(b) THEN IF carry = 0 THEN <<>> ELSE <<carry>>
    ELSE CHOOSE sum \in {<<s % Base>> \o BAddFrom(a, b, i + 1, s \div Base) :
                            s \in {Limb(a, i) + Limb(b, i) + carry}} : TRUE

BAdd(a, b) == CHOOSE sum \in {BAddFrom(x, y, 1, 0) : x \in {a}, y \in {b}} : TRUE

\* a - b for a >= b
RECURSIVE BSubFrom(_, _, _, _)
BSubFrom(a, b, i, borrow) ==
    IF i > Len(a) THEN <<>>
    ELSE CHOOSE diff \in {<<d % Base>> \o BSubFrom(a, b, i + 1, IF d < Base THEN 1 ELSE 0) :
                             d \in {Base + a[i] - Limb(b, i) - borrow}} : TRUE

BSub(a, b) == CHOOSE diff \in {BTrim(BSubFrom(x, y, 1, 0)) : x \in {a}, y \in {b}} : TRUE

\* a * k for a digit k
RECURSIVE BMulSmallFrom(_, _, _, _)
BMulSmallFrom(a, k, i, carry) ==
    IF i > Len(a) THEN IF carry = 0 THEN <<>> ELSE <<carry>>
    ELSE CHOOSE prod \in {<<p % Base>> \o BMulSmallFrom(a, k, i + 1, p \div Base) :
                             p \in {a[i] * k + carry}} : TRUE

BMulSmall(a, k) ==
    CHOOSE prod \in {IF j = 0 THEN <<>> ELSE BMulSmallFrom(x, j, 1, 0) :
                        x \in {a}, j \in {k}} : TRUE

Zeros(n) == [i \in 1..n |-> 0]

RECURSIVE BMulFrom(_, _, _, _)
BMulFrom(a, b, j, acc) ==
    IF j > Len(b) THEN acc
    ELSE CHOOSE prod \in {BMulFrom(a, b, j + 1, next) :
                             next \in {BAdd(acc, IF b[j] = 0 THEN <<>>
                                                 ELSE Zeros(j - 1) \o BMulSmall(a, b[j]))}} : TRUE

BMul(a, b) == CHOOSE prod \in {BMulFrom(x, y, 1, <<>>) : x \in {a}, y \in {b}} : TRUE

\* the quotient and the remainder of a by k, for 0 < k <= Base, from digit i down
RECURSIVE BDivSmallFrom(_, _, _, _, _)
BDivSmallFrom(a, k, i, rem, quot) ==
    IF i = 0 THEN [q |-> BTrim(quot), r |-> rem]
    ELSE CHOOSE res \in {BDivSmallFrom(a, k, i - 1, cur % k, <<cur \div k>> \o quot) :
                            cur \in {rem * Base + a[i]}} : TRUE

BDivSmall(a, k) ==
    CHOOSE res \in {BDivSmallFrom(x, j, Len(x), 0, <<>>) : x \in {a}, j \in {k}} : TRUE

\* a * 2^n and the whole part of a / 2^n
BShl(a, n) ==
    CHOOSE res \in {IF x = <<>> THEN <<>>
                    ELSE Zeros(k \div LimbBits) \o BMulSmall(x, 2^(k % LimbBits)) :
                       x \in {a}, k \in {n}} : TRUE

BShr(a, n) ==
    CHOOSE res \in {IF k \div LimbBits >= Len(x) THEN <<>>
                    ELSE BDivSmall(SubSeq(x, k \div LimbBits + 1, Len(x)),
                                   2^(k % LimbBits)).q :
                       x \in {a}, k \in {n}} : TRUE

\* a modulo 2^n
BLow(a, n) ==
    CHOOSE res \in {BTrim([i \in 1..(IF k \div LimbBits + 1 <= Len(x)
                                     THEN k \div LimbBits + 1 ELSE Len(x)) |->
                              IF i = k \div LimbBits + 1
                              THEN x[i] % 2^(k % LimbBits) ELSE x[i]]) :
                       x \in {a}, k \in {n}} : TRUE

\* bit n of a, bit 0 the least
BBit(a, n) ==
    CHOOSE bit \in {(Limb(x, k \div LimbBits + 1) \div 2^(k % LimbBits)) % 2 :
                       x \in {a}, k \in {n}} : TRUE

\* the bits of a digit, and of a number
DigitBits(d) ==
    CHOOSE k \in 0..LimbBits : \E v \in {d} : v < 2^k /\ (k = 0 \/ v >= 2^(k - 1))

BBits(a) ==
    CHOOSE n \in {IF x = <<>> THEN 0
                  ELSE LimbBits * (Len(x) - 1) + DigitBits(x[Len(x)]) : x \in {a}} : TRUE

\* one digit of a long division: the largest q with q * b <= r, for b with a top digit
\* of at least Base / 2 and r < b * Base; the estimate from the top digits is at most
\* two above it
RECURSIVE BQuotDigit(_, _, _)
BQuotDigit(r, b, q) ==
    CHOOSE digit \in {IF BCmp(BMulSmall(b, k), r) > 0 THEN BQuotDigit(r, b, k - 1) ELSE k :
                         k \in {q}} : TRUE

BEstimate(r, b) ==
    CHOOSE q \in {IF est < Base THEN est ELSE Base - 1 :
                     est \in {(Limb(r, Len(b) + 1) * Base + Limb(r, Len(b))) \div b[Len(b)]}} :
        TRUE

\* the quotient and the remainder of a by b, b with a top digit of at least Base / 2,
\* from digit i of a down
RECURSIVE BDivFrom(_, _, _, _, _)

BDivStep(a, b, i, r, q, quot) ==
    CHOOSE res \in {BDivFrom(a, b, i - 1, next, <<q>> \o quot) :
                       next \in {BSub(r, BMulSmall(b, q))}} : TRUE

BDivDigit(a, b, i, r, quot) ==
    CHOOSE res \in {BDivStep(a, b, i, r, q, quot) :
                       q \in {BQuotDigit(r, b, BEstimate(r, b))}} : TRUE

BDivFrom(a, b, i, rem, quot) ==
    IF i = 0 THEN [q |-> BTrim(quot), r |-> rem]
    ELSE CHOOSE res \in {BDivDigit(a, b, i, r, quot) : r \in {BTrim(<<a[i]>> \o rem)}} : TRUE

\* the quotient of a by b # 0 and whether a remainder is left: both are shifted left
\* until the top digit of b is at least Base / 2, which leaves the quotient as it is
BDivShifted(a, b) ==
    CHOOSE res \in {[q |-> d.q, exact |-> d.r = <<>>] :
                       d \in {IF Len(a) < Len(b) THEN [q |-> <<>>, r |-> a]
                              ELSE BDivFrom(a, b, Len(a) - Len(b) + 1,
                                            SubSeq(a, Len(a) - Len(b) + 2, Len(a)), <<>>)}} :
        TRUE

BDivBy(a, b, shift) ==
    CHOOSE res \in {BDivShifted(x, y) : x \in {BShl(a, shift)}, y \in {BShl(b, shift)}} : TRUE

\* the same of a by a digit k
BDivDigits(a, k) ==
    CHOOSE res \in {[q |-> d.q, exact |-> d.r = 0] : d \in {BDivSmall(a, k)}} : TRUE

BDiv(a, b) ==
    CHOOSE res \in {IF Len(y) = 1 THEN BDivDigits(x, y[1])
                    ELSE BDivBy(x, y, LimbBits - DigitBits(y[Len(y)])) :
                       x \in {a}, y \in {b}} : TRUE

\* the zero bits at the low end of a digit d # 0, and of a number a # 0
DigitTrailing(d) ==
    CHOOSE k \in 0..(LimbBits - 1) : \E v \in {d} : v % 2^(k + 1) # 0 /\ v % 2^k = 0

LowDigit(a) == CHOOSE i \in DOMAIN a : a[i] # 0 /\ \A j \in 1..(i - 1) : a[j] = 0

BTrailing(a) ==
    CHOOSE n \in {LimbBits * (i - 1) + DigitTrailing(a[i]) : i \in {LowDigit(a)}} : TRUE

FZero == [neg |-> FALSE, m |-> <<>>, e |-> 0]

\* the float nearest to m * 2^e for a number m of more than 53 bits, ties to the even
\* mantissa; `more` says that the number is above m * 2^e, by less than 2^e
FRoundUp(neg, up, e) ==
    IF BBits(up) > MantBits THEN [neg |-> neg, m |-> BShr(up, 1), e |-> e + 1]
    ELSE [neg |-> neg, m |-> up, e |-> e]

FRoundDown(neg, m, e, more, drop) ==
    CHOOSE f \in {IF BBit(m, drop - 1) = 1 /\ (more \/ BLow(m, drop - 1) # <<>> \/ q[1] % 2 = 1)
                  THEN CHOOSE g \in {FRoundUp(neg, up, e + drop) : up \in {BAdd(q, <<1>>)}} : TRUE
                  ELSE [neg |-> neg, m |-> q, e |-> e + drop] :
                     q \in {BShr(m, drop)}} : TRUE

\* the float nearest to m * 2^e; a number of 53 bits or fewer is a float as it is
FRoundBits(neg, m, e, more, bits) ==
    IF bits = 0 THEN FZero
    ELSE IF bits <= MantBits
    THEN [neg |-> neg, m |-> BShl(m, MantBits - bits), e |-> e - (MantBits - bits)]
    ELSE FRoundDown(neg, m, e, more, bits - MantBits)

FRoundOf(neg, m, e, more) ==
    CHOOSE f \in {FRoundBits(neg, m, e, more, bits) : bits \in {BBits(m)}} : TRUE

FRound(neg, m, e, more) ==
    CHOOSE f \in {FRoundOf(s, x, k, r) : s \in {neg}, x \in {m}, k \in {e}, r \in {more}} :
        TRUE

\* float(n) of an int
FromInt(n) ==
    CHOOSE f \in {FRound(k < 0, BFromInt(IF k < 0 THEN 0 - k ELSE k), 0, FALSE) :
                     k \in {n}} : TRUE

\* -x
FNeg(x) ==
    CHOOSE f \in {IF a.m = <<>> THEN a ELSE [a EXCEPT !.neg = ~a.neg] : a \in {x}} : TRUE

\* -1, 0 or 1 as |x| is below, equal to or above |y|
FCmpAbs(x, y) ==
    IF x.m = <<>> \/ y.m = <<>>
    THEN IF x.m = y.m THEN 0 ELSE IF x.m = <<>> THEN 0 - 1 ELSE 1
    ELSE IF x.e # y.e THEN IF x.e < y.e THEN 0 - 1 ELSE 1
    ELSE BCmp(x.m, y.m)

\* x < y and x <= y
FLtValues(x, y) ==
    IF x.neg # y.neg THEN x.neg
    ELSE IF x.neg THEN FCmpAbs(x, y) > 0 ELSE FCmpAbs(x, y) < 0

FLt(x, y) == CHOOSE lt \in {FLtValues(a, b) : a \in {x}, b \in {y}} : TRUE

FLe(x, y) == CHOOSE le \in {a = b \/ FLtValues(a, b) : a \in {x}, b \in {y}} : TRUE

\* x + y of the numbers a * 2^e and b * 2^e
FAddAligned(xneg, a, yneg, b, e) ==
    IF xneg = yneg THEN FRound(xneg, BAdd(a, b), e, FALSE)
    ELSE CHOOSE f \in {IF c = 0 THEN FZero
                       ELSE IF c > 0 THEN FRound(xneg, BSub(a, b), e, FALSE)
                       ELSE FRound(yneg, BSub(b, a), e, FALSE) : c \in {BCmp(a, b)}} : TRUE

\* x + y
FAddAt(x, y, e) ==
    CHOOSE f \in {FAddAligned(x.neg, a, y.neg, b, e) :
                     a \in {BShl(x.m, x.e - e)}, b \in {BShl(y.m, y.e - e)}} : TRUE

FAddValues(x, y) ==
    IF x.m = <<>> THEN y
    ELSE IF y.m = <<>> THEN x
    ELSE FAddAt(x, y, IF x.e <= y.e THEN x.e ELSE y.e)

FAdd(x, y) == CHOOSE f \in {FAddValues(a, b) : a \in {x}, b \in {y}} : TRUE

\* x - y
FSub(x, y) == CHOOSE f \in {FAddValues(a, b) : a \in {x}, b \in {FNeg(y)}} : TRUE

\* x * y
FMulValues(x, y) ==
    IF x.m = <<>> \/ y.m = <<>> THEN FZero
    ELSE FRound(x.neg # y.neg, BMul(x.m, y.m), x.e + y.e, FALSE)

FMul(x, y) == CHOOSE f \in {FMulValues(a, b) : a \in {x}, b \in {y}} : TRUE

\* x / y for y # 0: the quotient of the mantissas to 56 bits or more, after the
\* `zeros` zero bits at the low end of the mantissa of y are taken off
FDivBy(x, y, zeros) ==
    CHOOSE f \in {FRound(x.neg # y.neg, d.q, x.e - y.e - (MantBits + 3), ~d.exact) :
                     d \in {BDiv(BShl(x.m, MantBits + 3 - zeros), BShr(y.m, zeros))}} : TRUE

FDivValues(x, y) ==
    IF x.m = <<>> THEN FZero
    ELSE CHOOSE f \in {FDivBy(x, y, zeros) : zeros \in {BTrailing(y.m)}} : TRUE

FDiv(x, y) == CHOOSE f \in {FDivValues(a, b) : a \in {x}, b \in {y}} : TRUE

\* math.fmod(|x|, k) for an int k > 0; the result is a float as it is
FModAbs(x, k) ==
    IF x.m = <<>> THEN FZero
    ELSE IF x.e >= 0
    THEN FRound(FALSE, BFromInt(BDivSmall(BShl(x.m, x.e), k).r), 0, FALSE)
    ELSE FRound(FALSE,
                BAdd(BShl(BFromInt(BDivSmall(BShr(x.m, 0 - x.e), k).r), 0 - x.e),
                     BLow(x.m, 0 - x.e)),
                x.e, FALSE)

\* x % k of a float and an int k > 0: the remainder of fmod, and k more when it is
\* below zero
FModValues(x, k, r) ==
    IF r.m = <<>> THEN FZero
    ELSE IF x.neg THEN FAdd(FNeg(r), FromInt(k))
    ELSE r

FModOf(x, k) == CHOOSE f \in {FModValues(x, k, r) : r \in {FModAbs(x, k)}} : TRUE

FMod(x, k) == CHOOSE f \in {FModOf(a, j) : a \in {x}, j \in {k}} : TRUE

\* int(x): the whole part, towards zero
FTruncValue(x) ==
    IF x.m = <<>> THEN 0
    ELSE (IF x.neg THEN 0 - 1 ELSE 1)
             * BToInt(IF x.e >= 0 THEN BShl(x.m, x.e) ELSE BShr(x.m, 0 - x.e))

FTrunc(x) == CHOOSE n \in {FTruncValue(a) : a \in {x}} : TRUE

\* min(x, y)
FMin(x, y) == CHOOSE f \in {IF FLtValues(b, a) THEN b ELSE a : a \in {x}, b \in {y}} : TRUE

----------------------------------------------------------------------------
(* The segment and the voter under the pointer: pointer_details *)

\* the 360 of `rotation % 360` and of `360.0 * (votes / total)`, and
\* pointer_angle = 90.0
FullTurn == 360
PointerAngle == 90

\* "voted by: " and "unknown-"
VotedByText == <<118, 111, 116, 101, 100, 32, 98, 121, 58, 32>>
UnknownText == <<117, 110, 107, 110, 111, 119, 110, 45>>

\* a set_rotation that stores the angle as it is
set_rotation_raw(angle) == angle

\* WheelCanvas.set_rotation
set_rotation(angle) == FMod(angle, FullTurn)

\* wheel_angle
\* the wheel angle with the pointer at 0 degrees
WheelAngleAtZero(angle) == FMod(FSub(FZero, FMod(angle, FullTurn)), FullTurn)

WheelAngle(angle) == FMod(FSub(FromInt(PointerAngle), FMod(angle, FullTurn)), FullTurn)

\* the usernames whose vote is `phrase`
PhraseUsers(uv, phrase) == {u \in DOMAIN uv : uv[u] = phrase}

LeastStr(S) == CHOOSE a \in S : \A b \in S : a = b \/ StrLess(a, b)

\* sorted(...) of a set of texts
RECURSIVE SortedStrs(_)
SortedStrs(S) ==
    IF S = {} THEN <<>> ELSE <<LeastStr(S)>> \o SortedStrs(S \ {LeastStr(S)})

\* phrase_users[:votes], extended with "unknown-1", "unknown-2", ...
VoterSlots(phrase_users, votes) ==
    IF Len(phrase_users) >= votes
    THEN SubSeq(phrase_users, 1, votes)
    ELSE phrase_users
             \o [i \in 1..(votes - Len(phrase_users)) |-> UnknownText \o NatStr(i)]

\* slot_idx = min(len(voter_slots) - 1, int(local_angle / slot_extent))
SlotIdx(voter_slots, local_angle, slot_extent) ==
    Min(Len(voter_slots) - 1, FTrunc(FDiv(local_angle, slot_extent)))

\* "voted by: -" without slots, else the slot at slot_idx, with
\* slot_extent = extent / len(voter_slots)
VotedBy(voter_slots, local_angle, extent) ==
    IF voter_slots = <<>> THEN VotedByText \o <<45>>
    ELSE VotedByText
             \o voter_slots[SlotIdx(voter_slots, local_angle,
                                    FDiv(extent, FromInt(Len(voter_slots)))) + 1]

RECURSIVE PointerFrom(_, _, _, _, _, _)

\* the body of the loop of pointer_details for the i-th entry of top_votes, whose
\* extent is `extent`
PointerAt(top_votes, uv, total, wheel_angle, i, running, extent) ==
    IF FLe(running, wheel_angle) /\ FLt(wheel_angle, FAdd(running, extent))
    THEN [phrase |-> top_votes[i].phrase,
          voted_by |-> VotedBy(VoterSlots(SortedStrs(PhraseUsers(uv, top_votes[i].phrase)),
                                          top_votes[i].votes),
                               FSub(wheel_angle, running), extent)]
    ELSE PointerFrom(top_votes, uv, total, wheel_angle, i + 1, FAdd(running, extent))

\* the loop of pointer_details from the i-th entry of top_votes on, with `running`
\* the sum of the extents before it, and the fallback after the last entry
PointerFrom(top_votes, uv, total, wheel_angle, i, running) ==
    IF i > Len(top_votes)
    THEN [phrase |-> IF top_votes = <<>> THEN <<>> ELSE top_votes[1].phrase,
          voted_by |-> VotedByText \o <<45>>]
    ELSE CHOOSE details \in
             {PointerAt(top_votes, uv, total, wheel_angle, i, sum, extent) :
                  sum \in {running},
                  extent \in {FMul(FromInt(FullTurn),
                                   FDiv(FromInt(top_votes[i].votes), FromInt(total)))}} :
             TRUE

PointerOf(top_votes, uv, total, wheel_angle) ==
    IF total <= 0 THEN [phrase |-> <<>>, voted_by |-> <<>>]
    ELSE PointerFrom(top_votes, uv, total, wheel_angle, 1, FZero)

\* pointer_details with the text max_phrases_var.get() returned
pointer_with(vc, uv, angle, max_text) ==
    CHOOSE details \in {PointerOf(top_votes, uv, total, wheel_angle) :
                            top_votes \in {top_votes_with(vc, max_text)},
                            total \in {SumVotes(top_votes_with(vc, max_text))},
                            wheel_angle \in {WheelAngle(angle)}} : TRUE

pointer_details(vc, uv, angle) == pointer_with(vc, uv, angle, max_phrases_var)

----------------------------------------------------------------------------
(* App.export_segments: the lines written to the file *)

\* "# TWITCH_WHEEL_EXPORT_V2\n"
ExportHeader == <<35, 32, 84, 87, 73, 84, 67, 72, 95, 87, 72, 69, 69, 76, 95, 69, 88, 80, 79, 82, 84, 95, 86, 50, 10>>

\* f"SEGMENT\t{phrase}\t{votes}\n" for each item of the sorted top votes
SegmentLines(items) ==
    [i \in DOMAIN items |->
        TagSegment \o <<9>> \o items[i].phrase \o <<9>> \o IntStr(items[i].votes) \o <<10>>]

\* the usernames of sorted(user_votes.items()) whose phrase is in top_phrases
ExportedUsers(uv, top_phrases) ==
    SelectSeq(SortedStrs(DOMAIN uv), LAMBDA u : uv[u] \in top_phrases)

\* f"USERVOTE\t{username}\t{phrase}\n" for each of them
UserVoteLines(uv, usernames) ==
    [i \in DOMAIN usernames |->
        TagUserVote \o <<9>> \o usernames[i] \o <<9>> \o uv[usernames[i]] \o <<10>>]

\* the file export_segments writes when it can write it
export_segments(vc, uv, max_text) ==
    <<ExportHeader>>
        \o SegmentLines(SortedItems(top_votes_with(vc, max_text)))
        \o UserVoteLines(uv, ExportedUsers(uv, Keys(top_votes_with(vc, max_text))))

----------------------------------------------------------------------------
(* The initial state: App.__init__, whose connect_chat() started the chat   *)
(* thread                                                                  *)

Init ==
    /\ vote_counts = <<>>
    /\ user_votes = <<>>
    /\ voting_active = FALSE
    /\ tree = <<>>
    /\ status_var = "Disconnected"
    /\ spinning = FALSE
    /\ rotation = FZero
    /\ canvas_rotation = FZero
    /\ pointer = [phrase |-> <<>>, voted_by |-> <<>>]
    /\ max_phrases_var = <<49, 48>>
    /\ spin_velocity = FZero
    /\ event_queue = <<>>
    /\ irc_pc = "start"
    /\ stop_event = FALSE
    /\ sock = "none"
    /\ read_buffer = <<>>
    /\ ui_pc = "idle"
    /\ enqueued = <<>>
    /\ handled = <<>>
    /\ enq_at_drain = 0
    /\ enq_at_stop = 0
    /\ last_cb = "none"
    /\ lines_recv = 0
    /\ pc_at_stop = "none"
    /\ ticks = 0
    /\ last_op = "none"

----------------------------------------------------------------------------
(* Callbacks of the Tk thread that act on the ledger *)

other_vars == <<status_var, ui_pc, max_phrases_var, spin_vars, irc_vars, stop_vars, put_vars,
               drain_vars>>

StartVote ==
    /\ ui_pc = "idle"
    /\ voting_active' = TRUE
    /\ UNCHANGED <<ledger_vars, other_vars>>

ClearVote ==
    /\ ui_pc = "idle"
    /\ voting_active' = FALSE
    /\ vote_counts' = <<>>
    /\ user_votes' = <<>>
    /\ tree' = TreeRows(vote_counts')
    /\ pointer' = pointer_details(vote_counts', user_votes', rotation)
    /\ last_op' = "other"
    /\ UNCHANGED other_vars

StopVote ==
    /\ ui_pc = "idle"
    /\ voting_active
    /\ voting_active' = FALSE
    /\ UNCHANGED <<ledger_vars, other_vars>>

\* update_timer when the vote's time is over
UpdateTimer ==
    /\ ui_pc = "idle"
    /\ voting_active
    /\ voting_active' = FALSE
    /\ UNCHANGED <<ledger_vars, other_vars>>

\* what a call of consume_vote that returned r did: "ignored" (not voting, or no
\* sender, or no phrase), "same" (the sender's vote as it stands), "vote_drop" (counted,
\* and a phrase left the dict) or "vote" (counted)
VoteEffect(r, username_raw, message) ==
    IF r.refreshed
    THEN IF Keys(vote_counts) \ Keys(r.vc) # {} THEN "vote_drop" ELSE "vote"
    ELSE IF voting_active /\ Strip(username_raw) # <<>> /\ normalize_phrase(message) # <<>>
         THEN "same" ELSE "ignored"

\* the ledger and the table after consume_vote returned r
LedgerAfterVote(r, effect) ==
    /\ WithinBound(r.vc)
    /\ vote_counts' = r.vc
    /\ user_votes' = r.uv
    /\ tree' = IF r.refreshed THEN TreeRows(r.vc) ELSE tree
    /\ pointer' = IF r.refreshed THEN pointer_details(r.vc, r.uv, rotation) ELSE pointer
    /\ last_op' = IF effect = "ignored" THEN last_op ELSE effect

\* consume_vote, called for one chat event
ConsumeVote(username, message) ==
    /\ ui_pc = "idle"
    /\ LedgerAfterVote(consume_vote(vote_counts, user_votes, voting_active,
                                    username, message),
                       VoteEffect(consume_vote(vote_counts, user_votes, voting_active,
                                               username, message),
                                  username, message))
    /\ UNCHANGED <<voting_active, other_vars>>

AddOrUpdateSegment(text, votes_text) ==
    /\ ui_pc = "idle"
    /\ normalize_phrase(text) # <<>>
    /\ vote_counts' = add_or_update_segment(vote_counts, text, votes_text)
    /\ WithinBound(vote_counts')
    /\ tree' = TreeRows(vote_counts')
    /\ pointer' = pointer_details(vote_counts', user_votes, rotation)
    /\ last_op' = IF TargetPhrase(vote_counts, normalize_phrase(text)) \in Keys(vote_counts')
                  THEN "other" ELSE "zeroed"
    /\ UNCHANGED <<user_votes, voting_active, other_vars>>

\* remove_selected with the rows `selection` of the tree selected
RemoveSelected(selection) ==
    /\ ui_pc = "idle"
    /\ selection # {}
    /\ vote_counts' = PopAll(vote_counts, {tree[item].phrase : item \in selection})
    /\ tree' = TreeRows(vote_counts')
    /\ pointer' = pointer_details(vote_counts', user_votes, rotation)
    /\ last_op' = "other"
    /\ UNCHANGED <<user_votes, voting_active, other_vars>>

\* save_edit with new_value, phrase_old and votes_old read from the widgets
SaveEditValues(col, new_value, phrase_old, votes_old) ==
    /\ vote_counts' =
          IF col = 1
          THEN save_edit_phrase(vote_counts, phrase_old, votes_old,
                                normalize_phrase(new_value))
          ELSE save_edit_votes(vote_counts, phrase_old, votes_old, new_value)
    /\ WithinBound(vote_counts')
    /\ tree' = TreeRows(vote_counts')
    /\ pointer' = pointer_details(vote_counts', user_votes, rotation)
    /\ last_op' = IF col = 2 /\ phrase_old \notin Keys(vote_counts')
                  THEN "zeroed" ELSE "other"

\* save_edit of the editor opened on row `item`; col 1 is the phrase, col 2 the
\* votes. The editor's row is a row of the tree as it stands: a refresh since the
\* editor opened deletes the row, and save_edit then raises before it changes anything
SaveEdit(item, col, text) ==
    /\ ui_pc = "idle"
    /\ col = 1 => normalize_phrase(Strip(text)) # <<>>
    /\ SaveEditValues(col, Strip(text), tree[item].phrase, safe_int(tree[item].votes, 1))
    /\ UNCHANGED <<user_votes, voting_active, other_vars>>

\* on_top_phrases_changed, the trace of max_phrases_var, after `text` was written
\* to the entry
OnTopPhrasesChanged(text) ==
    /\ ui_pc = "idle"
    /\ max_phrases_var' = text
    /\ UNCHANGED <<vote_counts, user_votes>>
    /\ tree' = TreeRows(vote_counts)
    /\ UNCHANGED <<voting_active, last_op, status_var, ui_pc, spin_vars, irc_vars, stop_vars,
                   put_vars, drain_vars>>
    /\ pointer' = pointer_with(vote_counts, user_votes, rotation, text)

\* the ledger and the table after import_segments read r
LedgerAfterImport(r) ==
    /\ WithinBound(r.vc)
    /\ vote_counts' = r.vc
    /\ user_votes' = r.uv
    /\ tree' = TreeRows(r.vc)
    /\ pointer' = pointer_details(r.vc, r.uv, rotation)
    /\ last_op' = "other"

ImportSegments(file) ==
    /\ ui_pc = "idle"
    /\ LedgerAfterImport(import_segments(vote_counts, file))
    /\ status_var' = "Imported"
    /\ UNCHANGED <<voting_active, max_phrases_var, ui_pc, spin_vars, irc_vars, stop_vars, put_vars,
                   drain_vars>>

\* export_segments: the file is written, the ledger is left alone
ExportSegments ==
    /\ ui_pc = "idle"
    /\ status_var' = "Exported"
    /\ UNCHANGED <<ledger_vars, voting_active, max_phrases_var, ui_pc, spin_vars, irc_vars,
                   stop_vars, put_vars, drain_vars>>

----------------------------------------------------------------------------
(* The ledger under every operation of the main window *)

Next ==
    \/ StartVote
    \/ StopVote
    \/ ClearVote
    \/ UpdateTimer
    \/ \E username \in RawUsers, message \in RawMessages : ConsumeVote(username, message)
    \/ \E text \in RawMessages, votes_text \in VoteTexts :
           AddOrUpdateSegment(text, votes_text)
    \/ \E selection \in SUBSET (DOMAIN tree) : RemoveSelected(selection)
    \/ \E item \in DOMAIN tree, text \in RawMessages : SaveEdit(item, 1, text)
    \/ \E item \in DOMAIN tree, text \in VoteTexts : SaveEdit(item, 2, text)
    \/ \E file \in Files : ImportSegments(file)

Spec == Init /\ [][Next]_vars

\* The ledger under chat votes alone, from the empty ledger
NextVotes ==
    \/ StartVote
    \/ StopVote
    \/ UpdateTimer
    \/ \E username \in RawUsers \cup MoreUsers, message \in RawMessages :
           ConsumeVote(username, message)

SpecVotes == Init /\ [][NextVotes]_vars

----------------------------------------------------------------------------
(* Properties of the ledger *)

\* the senders whose vote is phrase p
SendersOf(uv, p) == {u \in DOMAIN uv : uv[u] = p}

\* C1: every sender of user_votes is mapped to a phrase that vote_counts holds with
\* a count of at least 1: no operation leaves a sender mapped to a missing phrase
C1_NoOrphanSender ==
    \A u \in DOMAIN user_votes : Get(vote_counts, user_votes[u], 0) >= 1

\* C2: the tally of every phrase of vote_counts is at least the number of senders
\* whose vote is that phrase
C2_TallyCoversSenders ==
    \A i \in DOMAIN vote_counts :
        vote_counts[i].votes >= Cardinality(SendersOf(user_votes, vote_counts[i].phrase))

\* C3: after chat votes alone, from the empty ledger, the tallies sum to the number
\* of senders that hold a vote
C3_Conservation == SumVotes(vote_counts) = Cardinality(DOMAIN user_votes)

\* C3 witness: two senders hold votes and the last vote moved a sender off a phrase
\* that then left the dict
C3_Witness == last_op = "vote_drop" /\ Cardinality(DOMAIN user_votes) >= 2

\* the same vote consumed again after it left r1: same target, same ledger
SecondVoteChangesNothing(vc, r1, active, username, message) ==
    /\ TargetPhrase(r1.vc, normalize_phrase(message))
           = TargetPhrase(vc, normalize_phrase(message))
    /\ consume_vote(r1.vc, r1.uv, active, username, message).vc = r1.vc
    /\ consume_vote(r1.vc, r1.uv, active, username, message).uv = r1.uv

\* C4: in every reachable ledger, a vote (sender, message) consumed twice in a row
\* resolves to the same target both times and the second leaves vote_counts and
\* user_votes as the first left them
C4_Idempotent ==
    \A username \in RawUsers, message \in RawMessages :
        SecondVoteChangesNothing(vote_counts,
            consume_vote(vote_counts, user_votes, voting_active, username, message),
            voting_active, username, message)

\* C4 witness: voting is on and a vote has just been counted
C4_Witness == voting_active /\ last_op \in {"vote", "vote_drop"}

\* the effect C5 describes of a vote by `username`, whose vote is p, for a phrase
\* that resolves to t, which left the ledger r
Reassigned(vc, uv, username, p, t, r) ==
    /\ Get(r.vc, p, 0) = Get(vc, p, 0) - 1
    /\ Get(r.vc, p, 0) = 0 => p \notin Keys(r.vc)
    /\ Get(r.vc, t, 0) = Get(vc, t, 0) + 1
    /\ UserGet(r.uv, username) = t
    /\ \A q \in (Keys(vc) \cup Keys(r.vc)) \ {p, t} : Get(r.vc, q, 0) = Get(vc, q, 0)
    /\ DOMAIN r.uv = DOMAIN uv
    /\ \A u \in DOMAIN uv \ {username} : r.uv[u] = uv[u]

\* C5 for one vote: when the sender's vote is a phrase p and the message resolves
\* to another phrase t
ReassignsWhenMoved(vc, uv, username, p, phrase, t, r) ==
    (username # <<>> /\ phrase # <<>> /\ p # NoneVal /\ t # p)
        => Reassigned(vc, uv, username, p, t, r)

\* C5: a vote by a sender whose phrase is p, resolving to t # p, takes exactly 1
\* from p's tally (p leaves the dict at 0), adds exactly 1 to t's, maps the sender to
\* t and changes no other tally and no other sender
C5_Reassign ==
    voting_active =>
        \A username \in RawUsers, message \in RawMessages :
            ReassignsWhenMoved(vote_counts, user_votes, LowerStr(Strip(username)),
                UserGet(user_votes, LowerStr(Strip(username))),
                normalize_phrase(message),
                TargetPhrase(vote_counts, normalize_phrase(message)),
                consume_vote(vote_counts, user_votes, voting_active, username, message))

\* C6: every entry of vote_counts has a count of at least 1
C6_PositiveTallies == \A i \in DOMAIN vote_counts : vote_counts[i].votes >= 1

\* C6 witness: the last operation brought a tally to 0 or below and the phrase left
\* the dict
C6_Witness == last_op \in {"zeroed", "vote_drop"}

----------------------------------------------------------------------------
(* The chat thread: TwitchIRCClient *)

CRLF == <<13, 10>>
\* "PING", "PRIVMSG", " PRIVMSG ", "!" and " :"
PingWord == <<80, 73, 78, 71>>
PrivmsgWord == <<80, 82, 73, 86, 77, 83, 71>>
PrivmsgSep == <<32, 80, 82, 73, 86, 77, 83, 71, 32>>
Bang == <<33>>
SpaceColon == <<32, 58>>

\* the least position of a set of positions
Least(at) == CHOOSE i \in at : \A k \in at : i <= k

\* the positions of s where sep starts
Occurrences(s, sep) == {i \in 1..(Len(s) - Len(sep) + 1) : SubSeq(s, i, i + Len(sep) - 1) = sep}

\* str.split(sep, 1), given the positions where sep starts
SplitAt(s, sep, at) ==
    IF at = {} THEN <<s>>
    ELSE <<SubSeq(s, 1, Least(at) - 1), SubSeq(s, Least(at) + Len(sep), Len(s))>>

SplitOnce(s, sep) == SplitAt(s, sep, Occurrences(s, sep))

\* str.lstrip(":")
RECURSIVE LStripColon(_)
LStripColon(s) == IF s # <<>> /\ Head(s) = 58 THEN LStripColon(Tail(s)) ELSE s

StartsWith(s, prefix) == Len(s) >= Len(prefix) /\ SubSeq(s, 1, Len(prefix)) = prefix

\* the message of a PRIVMSG line, given the username and the text after " PRIVMSG "
ParseTail(username, msg_split) ==
    IF Len(msg_split) # 2 THEN <<NoneVal, NoneVal>>
    ELSE <<username, Strip(msg_split[2])>>

ParseParts(username, parts) ==
    IF Len(parts) # 2 THEN <<NoneVal, NoneVal>>
    ELSE ParseTail(username, SplitOnce(parts[2], SpaceColon))

_parse_privmsg(raw_line) ==
    IF ~IsSubstring(PrivmsgWord, raw_line) \/ ~IsSubstring(Bang, raw_line)
    THEN <<NoneVal, NoneVal>>
    ELSE ParseParts(Strip(LStripColon(SplitOnce(raw_line, Bang)[1])),
                    SplitOnce(raw_line, PrivmsgSep))

\* the lines the server sends: two messages of al ("pizza", then "taco "), a PING
\* and a PRIVMSG with no sender
ServerLines ==
    {<<58, 97, 108, 33, 97, 108, 64, 120, 32, 80, 82, 73, 86, 77, 83,
       71, 32, 35, 99, 32, 58, 112, 105, 122, 122, 97>>,
     <<58, 97, 108, 33, 97, 108, 64, 120, 32, 80, 82, 73, 86, 77, 83,
       71, 32, 35, 99, 32, 58, 116, 97, 99, 111, 32>>,
     <<80, 73, 78, 71, 32, 58, 116, 109, 105>>,
     <<58, 116, 109, 105, 32, 80, 82, 73, 86, 77, 83, 71, 32, 35, 99, 32, 58, 104, 105>>}

\* what one recv returns: one line or two, each with its line end
Chunks ==
    {l \o CRLF : l \in ServerLines}
        \cup {l \o CRLF \o k \o CRLF : l \in ServerLines, k \in ServerLines}

\* the line ends of a chunk
LinesOf(chunk) == Cardinality(Occurrences(chunk, CRLF))

ChatEvent(kind, payload) == [kind |-> kind, payload |-> payload]

\* event_queue.put, as the callbacks of connect_chat call it
QueuePut(event) ==
    /\ event_queue' = Append(event_queue, event)
    /\ enqueued' = Append(enqueued, event)

on_chat(u, m) == QueuePut(ChatEvent("chat", <<u, m>>))
on_status(text) == QueuePut(ChatEvent("status", text))
on_error(text) == QueuePut(ChatEvent("error", text))

ui_vars == <<vote_counts, user_votes, voting_active, max_phrases_var, tree, pointer, last_op,
             status_var, ui_pc,
             spin_vars, drain_vars, stop_vars>>

\* run: on_status("Connecting to Twitch IRC...")
IrcStart ==
    /\ irc_pc = "start"
    /\ on_status("Connecting")
    /\ irc_pc' = "socket"
    /\ UNCHANGED <<sock, read_buffer, lines_recv, ui_vars>>

\* run: self.sock = socket.socket()
IrcSocket ==
    /\ irc_pc = "socket"
    /\ sock' = "open"
    /\ irc_pc' = "connect"
    /\ UNCHANGED <<read_buffer, lines_recv, put_vars, ui_vars>>

\* run: socket.socket() raised OSError, and the handler of run reports it
IrcSocketFails ==
    /\ irc_pc = "socket"
    /\ on_error("Failed to connect/read")
    /\ irc_pc' = "done"
    /\ UNCHANGED <<sock, read_buffer, lines_recv, ui_vars>>

\* run: connect and the three sends went through
IrcConnect ==
    /\ irc_pc = "connect"
    /\ sock = "open"
    /\ irc_pc' = "connected"
    /\ UNCHANGED <<sock, read_buffer, lines_recv, put_vars, ui_vars>>

\* run: connect or a send raised (the network, or the socket that stop() closed)
\* and the handler of run reports it
IrcConnectFails ==
    /\ irc_pc = "connect"
    /\ on_error("Failed to connect/read")
    /\ irc_pc' = "done"
    /\ UNCHANGED <<sock, read_buffer, lines_recv, ui_vars>>

\* run: on_status("Connected to ...")
IrcConnected ==
    /\ irc_pc = "connected"
    /\ on_status("Connected")
    /\ irc_pc' = "loop"
    /\ UNCHANGED <<sock, read_buffer, lines_recv, ui_vars>>

\* a test that never sees the flag
KeepsReadingAlways(stopped) == TRUE

\* the test of `while not self._stop_event.is_set()`
KeepsReading(stopped) == ~stopped

\* run: the test of the read loop
IrcLoop ==
    /\ irc_pc = "loop"
    /\ irc_pc' = IF KeepsReading(stop_event) THEN "recv" ELSE "done"
    /\ UNCHANGED <<sock, read_buffer, lines_recv, put_vars, ui_vars>>

\* run: recv returned data
IrcRecvData(chunk) ==
    /\ irc_pc = "recv"
    /\ sock = "open"
    /\ lines_recv + LinesOf(chunk) <= MaxLines
    /\ lines_recv' = lines_recv + LinesOf(chunk)
    /\ read_buffer' = read_buffer \o chunk
    /\ irc_pc' = "lines"
    /\ UNCHANGED <<sock, put_vars, ui_vars>>

\* run: recv returned no data: the server closed the connection
IrcRecvClosed ==
    /\ irc_pc = "recv"
    /\ sock = "open"
    /\ irc_pc' = "closed"
    /\ UNCHANGED <<sock, read_buffer, lines_recv, put_vars, ui_vars>>

\* run: `if not data`: on_error("Connection closed by server.") and break
IrcReportClosed ==
    /\ irc_pc = "closed"
    /\ on_error("Connection closed by server.")
    /\ irc_pc' = "done"
    /\ UNCHANGED <<sock, read_buffer, lines_recv, ui_vars>>

\* run: recv timed out after its second
IrcRecvTimeout ==
    /\ irc_pc = "recv"
    /\ irc_pc' = "loop"
    /\ UNCHANGED <<sock, read_buffer, lines_recv, put_vars, ui_vars>>

\* run: recv raised OSError (the network, or the socket that stop() closed)
IrcRecvError ==
    /\ irc_pc = "recv"
    /\ irc_pc' = "oserror"
    /\ UNCHANGED <<sock, read_buffer, lines_recv, put_vars, ui_vars>>

\* run: the handler of OSError tests `if not self._stop_event.is_set()`, and
\* breaks when the flag is set
IrcErrorTest ==
    /\ irc_pc = "oserror"
    /\ irc_pc' = IF ~stop_event THEN "report" ELSE "done"
    /\ UNCHANGED <<sock, read_buffer, lines_recv, put_vars, ui_vars>>

\* run: the handler of OSError found the flag clear: on_error("Socket error: ...")
\* and break
IrcReportError ==
    /\ irc_pc = "report"
    /\ on_error("Socket error")
    /\ irc_pc' = "done"
    /\ UNCHANGED <<sock, read_buffer, lines_recv, ui_vars>>

\* run: the chat line whose sender and message _parse_privmsg returned
IrcChat(parsed) ==
    IF parsed[1] # <<>> /\ parsed[2] # <<>>
    THEN on_chat(parsed[1], parsed[2])
    ELSE UNCHANGED put_vars

\* run: one line taken off read_buffer, a PING answered
IrcTakeLine(line, rest) ==
    /\ read_buffer' = rest
    /\ StartsWith(line, PingWord) => sock = "open"
    /\ IF line # <<>> /\ ~StartsWith(line, PingWord) /\ IsSubstring(PrivmsgWord, line)
       THEN \E parsed \in {_parse_privmsg(line)} : IrcChat(parsed)
       ELSE UNCHANGED put_vars
    /\ irc_pc' = "lines"

\* run: one turn of `while "\r\n" in read_buffer`
IrcLine ==
    /\ irc_pc = "lines"
    /\ IF IsSubstring(CRLF, read_buffer)
       THEN \E parts \in {SplitOnce(read_buffer, CRLF)} : IrcTakeLine(parts[1], parts[2])
       ELSE irc_pc' = "loop" /\ UNCHANGED <<read_buffer, put_vars>>
    /\ UNCHANGED <<sock, lines_recv, ui_vars>>

\* run: the send of PONG raised, and the handler of run reports it
IrcPongFails ==
    /\ irc_pc = "lines"
    /\ IsSubstring(CRLF, read_buffer)
    /\ \E parts \in {SplitOnce(read_buffer, CRLF)} :
           /\ StartsWith(parts[1], PingWord)
           /\ read_buffer' = parts[2]
    /\ on_error("Failed to connect/read")
    /\ irc_pc' = "done"
    /\ UNCHANGED <<sock, lines_recv, ui_vars>>

\* a step of the chat thread
IrcThread ==
    \/ IrcStart
    \/ IrcSocket
    \/ IrcSocketFails
    \/ IrcConnect
    \/ IrcConnectFails
    \/ IrcConnected
    \/ IrcLoop
    \/ \E chunk \in Chunks : IrcRecvData(chunk)
    \/ IrcRecvClosed
    \/ IrcReportClosed
    \/ IrcRecvTimeout
    \/ IrcRecvError
    \/ IrcErrorTest
    \/ IrcReportError
    \/ IrcLine
    \/ IrcPongFails

----------------------------------------------------------------------------
(* The timers of the Tk thread, the spin button and the close button *)

\* a get that takes the newest event
get_newest(q) == [event |-> q[Len(q)], rest |-> SubSeq(q, 1, Len(q) - 1)]

\* event_queue.get_nowait: the event it returns and the queue it leaves
get_nowait(q) == [event |-> Head(q), rest |-> Tail(q)]

\* a loop that also ends with events in the queue
EmptyOrNot(q) == TRUE

\* get_nowait raises queue.Empty
Empty(q) == q = <<>>

\* process_events: what the loop does with one event
HandleEvent(event) ==
    IF event.kind = "chat"
    THEN /\ LedgerAfterVote(consume_vote(vote_counts, user_votes, voting_active,
                                         event.payload[1], event.payload[2]),
                            VoteEffect(consume_vote(vote_counts, user_votes, voting_active,
                                                    event.payload[1], event.payload[2]),
                                       event.payload[1], event.payload[2]))
         /\ UNCHANGED status_var
    ELSE /\ status_var' = event.payload
         /\ UNCHANGED ledger_vars

\* process_events: one turn of the loop, with the event and the queue that
\* get_nowait returned
ProcessGot(got) ==
    /\ event_queue' = got.rest
    /\ handled' = Append(handled, got.event)
    /\ HandleEvent(got.event)

\* process_events: a turn of its loop that gets an event. The first turn is the
\* start of the callback
ProcessEventsGet ==
    /\ ui_pc \in {"idle", "draining"}
    /\ event_queue # <<>>
    /\ ProcessGot(get_nowait(event_queue))
    /\ enq_at_drain' = IF ui_pc = "idle" THEN Len(enqueued) ELSE enq_at_drain
    /\ ui_pc' = "draining"
    /\ UNCHANGED <<voting_active, max_phrases_var,
                   enqueued, last_cb, spin_vars, irc_vars, stop_vars>>

\* process_events: the turn that ends the loop, and root.after(100, ...)
ProcessEventsEmpty ==
    /\ ui_pc \in {"idle", "draining"}
    /\ Empty(event_queue)
    /\ enq_at_drain' = IF ui_pc = "idle" THEN Len(enqueued) ELSE enq_at_drain
    /\ ui_pc' = "idle"
    /\ last_cb' = "process_events"
    /\ UNCHANGED <<voting_active, max_phrases_var,
                   status_var, ledger_vars, handled, put_vars, spin_vars,
                   irc_vars, stop_vars>>

\* the floats 120.0, 0.985 and 0.05: FromInt(120), FDiv(FromInt(985), FromInt(1000))
\* and FDiv(FromInt(5), FromInt(100)), written out. 120.0 is 8444249301319680 * 2^-46,
\* 0.985 is read as 8872091265919877 * 2^-53 and 0.05 as 7205759403792794 * 2^-57
MaxVelocity == [neg |-> FALSE, m |-> <<0, 0, 0, 240>>, e |-> 0 - 46]
DecayFactor == [neg |-> FALSE, m |-> <<27525, 28835, 5242, 252>>, e |-> 0 - 53]
StopBelow == [neg |-> FALSE, m |-> <<6554, 13107, 26214, 204>>, e |-> 0 - 57]

\* random.random() returns k * 2^-53 for a natural number k below 2^53
IsRandom(r) ==
    /\ ~r.neg
    /\ FLt(r, FromInt(1))
    /\ r.m = <<>> \/ r.e >= 0 - MantBits \/ BLow(r.m, 0 - MantBits - r.e) = <<>>

\* the i-th of RandomSteps evenly spaced values of k: i * 2^53 / RandomSteps,
\* rounded down
RandomAt(i) == FRound(FALSE, BDivSmall(BShl(BFromInt(i), MantBits), RandomSteps).q,
                      0 - MantBits, FALSE)

\* the values of random.random() the wheel is spun with: evenly spaced ones from
\* 0.0 on, and the largest, 1 - 2^-53
Randoms ==
    {RandomAt(i) : i \in 0..(RandomSteps - 1)}
        \cup {FRound(FALSE, BSub(BShl(<<1>>, MantBits), <<1>>), 0 - MantBits, FALSE)}

\* random.uniform(a, b) is a + (b - a) * random()
uniform(a, b, random) == FAdd(FromInt(a), FMul(FromInt(b - a), random))

\* self.spin_velocity *= 0.985
Decayed(velocity) == FMul(velocity, DecayFactor)

\* a test that lets an empty wheel spin
HasVotesAlways(top_votes) == TRUE

\* any(v > 0 for v in top_votes.values())
HasVotes(top_votes) == \E i \in DOMAIN top_votes : top_votes[i].votes > 0

\* spin_wheel without `min(self.spin_velocity, 120.0)`
spin_wheel_unclamped(vc, velocity, is_spinning, random) ==
    IF HasVotes(get_top_votes(vc))
    THEN [spin_velocity |-> FAdd(velocity, uniform(18, 28, random)), spinning |-> TRUE]
    ELSE [spin_velocity |-> velocity, spinning |-> is_spinning]

\* spin_wheel with the value that random.random() returned inside random.uniform:
\* the velocity and the flag it leaves
spin_wheel(vc, velocity, is_spinning, random) ==
    IF HasVotes(get_top_votes(vc))
    THEN [spin_velocity |-> FMin(FAdd(velocity, uniform(18, 28, random)), MaxVelocity),
          spinning |-> TRUE]
    ELSE [spin_velocity |-> velocity, spinning |-> is_spinning]

SpinWheel(random) ==
    /\ ui_pc = "idle"
    /\ IsRandom(random)
    /\ \E spun \in {spin_wheel(vote_counts, spin_velocity, spinning, random)} :
           /\ spin_velocity' = spun.spin_velocity
           /\ spinning' = spun.spinning
    /\ UNCHANGED <<rotation, canvas_rotation, ticks, voting_active, max_phrases_var,
                   status_var, ui_pc,
                   ledger_vars, irc_vars, stop_vars, put_vars, drain_vars>>

\* a test of `if self.spin_velocity < 0.05` that never stops the wheel
StopsNever(velocity) == FALSE

\* the test of `if self.spin_velocity < 0.05`, on the decayed velocity
Stops(velocity) == FLt(velocity, StopBelow)

\* update_spin_state, and root.after(16, ...)
UpdateSpinState ==
    /\ ui_pc = "idle"
    /\ IF spinning \/ FLt(FZero, spin_velocity)
       THEN /\ rotation' = FAdd(rotation, spin_velocity)
            /\ \E decayed \in {Decayed(spin_velocity)} :
                   /\ spin_velocity' = IF Stops(decayed) THEN FZero ELSE decayed
                   /\ spinning' = IF Stops(decayed) THEN FALSE ELSE spinning
            /\ canvas_rotation' = set_rotation(rotation')
       ELSE UNCHANGED <<rotation, spin_velocity, spinning, canvas_rotation>>
    /\ pointer' = pointer_details(vote_counts, user_votes, rotation')
    /\ ticks' = ticks + 1
    /\ last_cb' = "update_spin_state"
    /\ UNCHANGED <<voting_active, max_phrases_var,
                   status_var, ui_pc, vote_counts, user_votes, tree, last_op,
                   irc_vars, stop_vars, put_vars, handled, enq_at_drain>>

\* on_close up to stop()'s _stop_event.set(); with no chat thread, all of on_close
OnClose ==
    /\ ui_pc = "idle"
    /\ IF irc_pc # "absent"
       THEN /\ stop_event' = TRUE
            /\ enq_at_stop' = Len(enqueued)
            /\ pc_at_stop' = irc_pc
            /\ ui_pc' = "stopping"
       ELSE /\ ui_pc' = "destroyed"
            /\ UNCHANGED stop_vars
    /\ UNCHANGED <<voting_active, max_phrases_var,
                   status_var, ledger_vars, spin_vars, irc_vars, put_vars,
                   drain_vars>>

\* on_close from there: stop() closes the socket if there is one, and
\* root.destroy() ends the main loop and its timers
OnCloseDestroy ==
    /\ ui_pc = "stopping"
    /\ sock' = IF sock = "open" THEN "closed" ELSE sock
    /\ ui_pc' = "destroyed"
    /\ UNCHANGED <<irc_pc, read_buffer, lines_recv, voting_active, max_phrases_var,
                   status_var, ledger_vars,
                   spin_vars, stop_vars, put_vars, drain_vars>>

\* the end of the script: app_root.mainloop() returns once the root is destroyed and
\* the interpreter exits. The chat thread is a daemon thread that nothing joins: if
\* it has not returned from run() it ends here, wherever it is
MainLoopReturns ==
    /\ ui_pc = "destroyed"
    /\ ui_pc' = "exited"
    /\ irc_pc' = IF irc_pc \in {"absent", "done"} THEN irc_pc ELSE "killed"
    /\ UNCHANGED <<sock, read_buffer, lines_recv, voting_active, max_phrases_var,
                   status_var, ledger_vars,
                   spin_vars, stop_vars, put_vars, drain_vars>>

\* App.__init__ when connect_chat found no nickname or no token: no chat thread
InitNoChat ==
    /\ vote_counts = <<>>
    /\ user_votes = <<>>
    /\ voting_active = FALSE
    /\ tree = <<>>
    /\ status_var = "Config missing nickname/oauth_token"
    /\ spinning = FALSE
    /\ rotation = FZero
    /\ canvas_rotation = FZero
    /\ pointer = [phrase |-> <<>>, voted_by |-> <<>>]
    /\ max_phrases_var = <<49, 48>>
    /\ spin_velocity = FZero
    /\ event_queue = <<>>
    /\ irc_pc = "absent"
    /\ stop_event = FALSE
    /\ sock = "none"
    /\ read_buffer = <<>>
    /\ ui_pc = "idle"
    /\ enqueued = <<>>
    /\ handled = <<>>
    /\ enq_at_drain = 0
    /\ enq_at_stop = 0
    /\ last_cb = "none"
    /\ lines_recv = 0
    /\ pc_at_stop = "none"
    /\ ticks = 0
    /\ last_op = "none"

----------------------------------------------------------------------------
(* The chat thread, the queue and the timers together *)

NextQueue ==
    \/ IrcThread
    \/ ProcessEventsGet
    \/ ProcessEventsEmpty
    \/ ticks < MaxTicks /\ UpdateSpinState
    \/ \E random \in Randoms :
           /\ FLe(FAdd(spin_velocity, uniform(18, 28, random)), FromInt(MaxSpun))
           /\ SpinWheel(random)
    \/ StartVote
    \/ StopVote
    \/ OnClose
    \/ OnCloseDestroy

SpecQueue == (Init \/ InitNoChat) /\ [][NextQueue]_vars

\* The chat thread, the drain, the close button and the end of the process. The
\* chat thread is scheduled as long as it has a step to take, which it has only while
\* the process runs: MainLoopReturns leaves it none. Nothing is assumed of how soon
\* the process ends after on_close, or that it ends at all
NextLive ==
    \/ IrcThread
    \/ ProcessEventsGet
    \/ ProcessEventsEmpty
    \/ OnClose
    \/ OnCloseDestroy
    \/ MainLoopReturns

SpecLive == (Init \/ InitNoChat) /\ [][NextLive]_vars /\ WF_vars(IrcThread)

----------------------------------------------------------------------------
(* Properties of the queue, the timers and the shutdown *)

\* C7: the events process_events has handled, followed by the events still queued,
\* are the events the chat thread enqueued, in the order it enqueued them: the
\* handled events are a prefix of the enqueue sequence, none lost or out of order
C7_Fifo == enqueued = handled \o event_queue

\* C7 witness: two chat events of one sender have been handled, the earlier first,
\* while a later event waits in the queue
C7_Witness ==
    /\ event_queue # <<>>
    /\ \E i \in DOMAIN handled, j \in DOMAIN handled :
           /\ i < j
           /\ handled[i].kind = "chat" /\ handled[j].kind = "chat"
           /\ handled[i].payload[1] = handled[j].payload[1]
           /\ handled[i].payload[2] # handled[j].payload[2]

\* C8 as stated: whenever the wheel advances, the callback that ran last was a
\* drain, and it applied every event queued when it began (one tick after each drain)
C8_TickFollowsDrain ==
    [][rotation' # rotation =>
          (last_cb = "process_events" /\ Len(handled) >= enq_at_drain)]_vars

\* C8: a spin tick never runs inside a drain, and when it runs every event that was
\* queued when the latest drain began has been applied; the tick and the drain are
\* timers of their own, so ticks follow ticks and newer events may wait in the queue
C8_TickOutsideDrain ==
    [][ticks' # ticks => (ui_pc = "idle" /\ Len(handled) >= enq_at_drain)]_vars

\* C8 witness: the wheel has advanced in the latest of several ticks, after a drain
\* that applied events, with a newer event waiting in the queue
C8_Witness ==
    /\ last_cb = "update_spin_state"
    /\ ticks >= 2
    /\ FLt(FZero, rotation)
    /\ handled # <<>>
    /\ event_queue # <<>>

\* C9 as stated: when the window is destroyed, every event that was enqueued before
\* stop() set the flag has been handled
C9_DrainedBeforeDestroy == ui_pc = "destroyed" => Len(handled) >= enq_at_stop

\* C10 as stated: once stop() has set the flag, the chat thread comes to the end of
\* run(), wherever it was, because recv times out and the loop tests the flag again
C10_Terminates == stop_event ~> (irc_pc = "done")

\* C10: once stop() has set the flag, the chat thread ends, wherever it was: it comes
\* to the end of run(), or the process exits first and the daemon thread ends with
\* it. As long as the process runs, the thread does not stay in connect, in recv or
\* in the lines of read_buffer for ever
C10_TerminatesOrExits == stop_event ~> (irc_pc \in {"done", "killed"})

\* C10 witness: stop() found the thread blocked in recv and the thread came to the
\* end of run() while the process was still there
C10_Witness == stop_event /\ pc_at_stop = "recv" /\ irc_pc = "done" /\ ui_pc # "exited"

\* C10, the other way to end: stop() found the thread blocked in recv and the
\* process exited before the thread came to test the flag
C10_Killed == stop_event /\ pc_at_stop = "recv" /\ irc_pc = "killed"

----------------------------------------------------------------------------
(* The wheel: spin requests that arrive before the first ticks, the ticks that let
   the wheel run down, and a ledger of one phrase that comes and goes *)

\* spin requests arrive before this many ticks
SpinWindow == 1
\* the most update_spin_state runs of a wheel that runs down
MaxSpinTicks == 600

\* the phrase typed, "pizza", and the counts typed, "2" and "0"
SpinPhrase == <<112, 105, 122, 122, 97>>
SpinVotes == {<<50>>, <<48>>}

SpinTick == ticks < MaxSpinTicks /\ UpdateSpinState

NextSpin ==
    \/ \E votes_text \in SpinVotes : AddOrUpdateSegment(SpinPhrase, votes_text)
    \/ \E random \in Randoms : ticks < SpinWindow /\ SpinWheel(random)
    \/ SpinTick

\* update_spin_state reschedules itself every 16 ms, so it keeps running
SpecSpin == Init /\ [][NextSpin]_vars /\ WF_vars(SpinTick)

----------------------------------------------------------------------------
(* Properties of the wheel *)

\* the total weight of the top-K view
TopWeight(vc) == SumVotes(get_top_votes(vc))

\* what C11 says of a spin request that found velocity v and left r
SpinRequestEffect(vc, v, is_spinning, r) ==
    IF TopWeight(vc) = 0
    THEN r.spin_velocity = v /\ r.spinning = is_spinning
    ELSE /\ r.spinning
         /\ FLe(r.spin_velocity, MaxVelocity)
         /\ FLt(v, r.spin_velocity) \/ r.spin_velocity = MaxVelocity

\* C11: a spin request with a top-K view of zero total weight changes neither
\* spin_velocity nor spinning (nor rotation, which spin_wheel never writes); with a
\* positive weight it sets spinning and raises the velocity, up to the cap
C11_SpinRequest ==
    \A random \in Randoms :
        SpinRequestEffect(vote_counts, spin_velocity, spinning,
                          spin_wheel(vote_counts, spin_velocity, spinning, random))

\* C11 witness: requests were stacked up to the cap, and the ledger is now empty, so
\* that the next request is rejected
C11_Witness == spinning /\ spin_velocity = MaxVelocity /\ vote_counts = <<>>

\* C12: a spinning wheel comes to velocity 0 and spinning false; while it spins every
\* tick advances the rotation; an idle wheel stays idle, and still, until a spin
\* request raises the velocity
C12_RunsDown ==
    /\ spinning ~> (~spinning /\ spin_velocity = FZero)
    /\ [][(spinning /\ ticks' # ticks) => FLt(rotation, rotation')]_vars
    /\ [][(~spinning /\ FLe(spin_velocity', spin_velocity))
             => (~spinning' /\ spin_velocity' = FZero /\ rotation' = rotation)]_vars

\* C12 witness: the wheel has turned, has stopped, and ticks have run since
C12_Witness ==
    /\ ~spinning /\ spin_velocity = FZero
    /\ FLt(FromInt(FullTurn), rotation) /\ ticks = MaxSpinTicks

\* C13 as stated: the stored rotation is in [0, 360)
C13_RotationWrapped == FLe(FZero, rotation) /\ FLt(rotation, FromInt(FullTurn))

\* C13: App.rotation is the sum of the velocities of all ticks and is never wrapped;
\* the rotation the canvas stores, WheelCanvas.rotation, is App.rotation modulo 360
\* and is in [0, 360)
C13_CanvasWrapped ==
    /\ FLe(FZero, rotation)
    /\ canvas_rotation = FMod(rotation, FullTurn)
    /\ FLe(FZero, canvas_rotation) /\ FLt(canvas_rotation, FromInt(FullTurn))

\* C13 witness: the wheel has made more than a full turn
C13_Witness == FLe(FromInt(FullTurn), rotation) /\ FLt(canvas_rotation, rotation)

----------------------------------------------------------------------------
(* The pointer: a wheel left at some angle, and a ledger of two phrases *)

\* angles the wheel was left at, idle: 0, 89.99999, 90.00001, 150, 180, 270 and 450
\* degrees, which put the pointer at wheel angles 90, 0.00001, 359.99999, 300, 270,
\* 180 and 0
Rotations ==
    {FromInt(0), FDiv(FromInt(8999999), FromInt(100000)),
     FDiv(FromInt(9000001), FromInt(100000)), FromInt(150), FromInt(180), FromInt(270),
     FromInt(450)}

\* phrases "x" and "y", counts "3", "1" and "0", users "bo" and "al", and texts of
\* the entry of top phrases: "1", "0" and "x"
PointerTexts == {<<120>>, <<121>>}
PointerVotes == {<<51>>, <<49>>, <<48>>}
PointerUsers == {<<98, 111>>, <<97, 108>>}
TopTexts == {<<49>>, <<48>>, <<120>>}

\* an idle wheel at one of the angles, after clear_vote and start_vote
InitPointer ==
    /\ vote_counts = <<>>
    /\ user_votes = <<>>
    /\ voting_active = TRUE
    /\ tree = <<>>
    /\ status_var = "Disconnected"
    /\ spinning = FALSE
    /\ rotation \in Rotations
    /\ canvas_rotation = set_rotation(rotation)
    /\ pointer = [phrase |-> <<>>, voted_by |-> <<>>]
    /\ max_phrases_var = <<49, 48>>
    /\ spin_velocity = FZero
    /\ event_queue = <<>>
    /\ irc_pc = "start"
    /\ stop_event = FALSE
    /\ sock = "none"
    /\ read_buffer = <<>>
    /\ ui_pc = "idle"
    /\ enqueued = <<>>
    /\ handled = <<>>
    /\ enq_at_drain = 0
    /\ enq_at_stop = 0
    /\ last_cb = "none"
    /\ lines_recv = 0
    /\ pc_at_stop = "none"
    /\ ticks = 0
    /\ last_op = "none"

NextPointer ==
    \/ \E username \in PointerUsers, message \in PointerTexts : ConsumeVote(username, message)
    \/ \E text \in PointerTexts, votes_text \in PointerVotes :
           AddOrUpdateSegment(text, votes_text)
    \/ \E text \in TopTexts : OnTopPhrasesChanged(text)

SpecPointer == InitPointer /\ [][NextPointer]_vars

----------------------------------------------------------------------------
(* Properties of the pointer *)

\* the votes of the entries of the view before the i-th
ViewPrefix(top, i) == SumVotes(SubSeq(top, 1, i - 1))

\* the sign of w * k - n, for a float w that is not negative and natural numbers
\* k and n, computed without rounding
ScaledCmpValue(w, k, n) ==
    IF w.e >= 0 THEN BCmp(BMulSmall(BShl(w.m, w.e), k), BFromInt(n))
    ELSE BCmp(BMulSmall(w.m, k), BShl(BFromInt(n), 0 - w.e))

ScaledCmp(w, k, n) == CHOOSE c \in {ScaledCmpValue(x, k, n) : x \in {w}} : TRUE

\* the angle (90 - rotation) mod 360
AngleUnderPointer == FMod(FSub(FromInt(PointerAngle), rotation), FullTurn)

\* wheel angle w is in the interval of the i-th entry of the view:
\* 360 * prefix / total <= w < 360 * (prefix + count) / total
InSegment(top, total, w, i) ==
    /\ ScaledCmp(w, total, FullTurn * ViewPrefix(top, i)) >= 0
    /\ ScaledCmp(w, total, FullTurn * (ViewPrefix(top, i) + top[i].votes)) < 0

\* what C14 says pointer_details reports as the phrase
SegmentReported(top, total, w, phrase) ==
    IF total = 0 THEN phrase = <<>>
    ELSE /\ phrase # <<>>
         /\ \E i \in DOMAIN top :
                /\ top[i].phrase = phrase
                /\ InSegment(top, total, w, i)
                /\ \A j \in DOMAIN top : InSegment(top, total, w, j) => j = i

\* C14: the phrase under the pointer is empty exactly when the top-K view has total
\* weight zero; otherwise it is the one entry of the view whose proportional interval
\* holds the wheel angle (90 - rotation) mod 360
C14_PointerSegment ==
    SegmentReported(get_top_votes(vote_counts), TopWeight(vote_counts),
                    AngleUnderPointer, pointer.phrase)

\* C14 witness: the view is [(x, 3), (y, 1)], the wheel angle is 300 and the pointer
\* reports y
C14_Witness ==
    /\ get_top_votes(vote_counts) = <<[phrase |-> <<120>>, votes |-> 3],
                                      [phrase |-> <<121>>, votes |-> 1]>>
    /\ AngleUnderPointer = FromInt(300)
    /\ pointer.phrase = <<121>>

\* the candidates C15 describes: the senders in alphabetical order, then placeholders
\* when the senders are fewer than the tally
Candidates(senders, tally) ==
    IF Len(senders) < tally
    THEN senders \o [i \in 1..(tally - Len(senders)) |-> UnknownText \o NatStr(i)]
    ELSE senders

\* wheel angle w is in the k-th of the equal slices of the i-th entry's interval
InSlice(top, total, w, i, slices, k) ==
    /\ ScaledCmp(w, total * slices,
                 FullTurn * (ViewPrefix(top, i) * slices + (k - 1) * top[i].votes)) >= 0
    /\ ScaledCmp(w, total * slices,
                 FullTurn * (ViewPrefix(top, i) * slices + k * top[i].votes)) < 0

\* the voter reported is the candidate whose slice holds w
CandidateReported(top, total, w, i, candidates, voted_by) ==
    \E k \in DOMAIN candidates :
        /\ InSlice(top, total, w, i, Len(candidates), k)
        /\ voted_by = VotedByText \o candidates[k]

\* C15: the voter under the pointer is the candidate whose slice of the segment holds
\* the wheel angle, the candidates being all the senders of the phrase in
\* alphabetical order, then placeholders when they are fewer than the tally
C15_PointerVoter ==
    \A i \in DOMAIN get_top_votes(vote_counts) :
        InSegment(get_top_votes(vote_counts), TopWeight(vote_counts),
                  AngleUnderPointer, i)
        => CandidateReported(get_top_votes(vote_counts), TopWeight(vote_counts),
               AngleUnderPointer, i,
               Candidates(SortedStrs(PhraseUsers(user_votes,
                                                 get_top_votes(vote_counts)[i].phrase)),
                          get_top_votes(vote_counts)[i].votes),
               pointer.voted_by)

\* the K that C16 reads from the entry of top phrases: the number typed, and 10 for
\* a text that is no number
ConfiguredK ==
    CASE max_phrases_var = <<49>> -> 1
      [] max_phrases_var = <<48>> -> 0
      [] max_phrases_var = <<49, 48>> -> 10
      [] OTHER -> 10

\* entry e comes before entry f: more votes, or as many and a lesser phrase
ComesBefore(e, f) == e.votes > f.votes \/ (e.votes = f.votes /\ StrLess(e.phrase, f.phrase))

Entries(items) == {items[i] : i \in DOMAIN items}

\* view is the first max(1, k) entries of vc by count descending, then phrase ascending
IsTopView(vc, k, view) ==
    /\ Len(view) = IF Len(vc) < k \/ Len(vc) < 1 THEN Len(vc) ELSE IF k < 1 THEN 1 ELSE k
    /\ Entries(view) \subseteq Entries(vc)
    /\ \A i, j \in DOMAIN view : i < j => ComesBefore(view[i], view[j])
    /\ \A e \in Entries(vc) \ Entries(view) : \A i \in DOMAIN view : ComesBefore(view[i], e)

\* the tally map with its phrases inserted in the opposite order
Reversed(vc) == [i \in DOMAIN vc |-> vc[Len(vc) + 1 - i]]

\* C16: get_top_votes is the first max(1, K) entries of the tally map by count
\* descending, then phrase ascending (all of them when fewer); it is the same for the
\* map with the opposite insertion order, and a K that is no number counts as 10
C16_TopView ==
    /\ IsTopView(vote_counts, ConfiguredK, get_top_votes(vote_counts))
    /\ get_top_votes(Reversed(vote_counts)) = get_top_votes(vote_counts)

\* C16 witness: K is "0", y was inserted before x with the same count, and the view is x
\* alone
C16_Witness ==
    /\ max_phrases_var = <<48>>
    /\ vote_counts = <<[phrase |-> <<121>>, votes |-> 3], [phrase |-> <<120>>, votes |-> 3]>>
    /\ get_top_votes(vote_counts) = <<[phrase |-> <<120>>, votes |-> 3]>>

----------------------------------------------------------------------------
(* Properties of the fuzzy match *)

\* the i-th phrase of vc is not the excluded one and is equal to the candidate, a
\* substring of it or it of the phrase, or similar to it
Qualifies(vc, candidate, excluded, i) ==
    /\ excluded = NoneVal \/ vc[i].phrase # excluded
    /\ \/ candidate = vc[i].phrase
       \/ IsSubstring(candidate, vc[i].phrase)
       \/ IsSubstring(vc[i].phrase, candidate)
       \/ RatioAtLeastThreshold(candidate, vc[i].phrase)

\* found is the first qualifying phrase in insertion order, or no match
IsFirstQualifying(vc, candidate, excluded, found) ==
    IF candidate = <<>> \/ \A i \in DOMAIN vc : ~Qualifies(vc, candidate, excluded, i)
    THEN found = NoneVal
    ELSE \E i \in DOMAIN vc :
             /\ Qualifies(vc, candidate, excluded, i)
             /\ \A j \in 1..(i - 1) : ~Qualifies(vc, candidate, excluded, j)
             /\ found = vc[i].phrase

\* a vote for a phrase that matches one of vc left the ledger with no new phrase
NoNewPhrase(vc, phrase, after) ==
    find_matching_phrase(vc, phrase, NoneVal) # NoneVal => Keys(after.vc) \subseteq Keys(vc)

\* C17: in every reachable ledger, for every candidate and every excluded phrase,
\* find_matching_phrase returns the first phrase in insertion order, the excluded one
\* skipped, that is equal, a substring either way or similar at 0.86 or more, and no
\* match when there is none or the candidate is empty; and a vote whose phrase matches
\* an existing phrase adds no phrase to vote_counts
C17_FirstMatch ==
    /\ \A message \in RawMessages, excluded \in Keys(vote_counts) \cup {NoneVal} :
           IsFirstQualifying(vote_counts, normalize_phrase(message), excluded,
               find_matching_phrase(vote_counts, normalize_phrase(message), excluded))
    /\ \A username \in RawUsers, message \in RawMessages :
           NoNewPhrase(vote_counts, normalize_phrase(message),
               consume_vote(vote_counts, user_votes, voting_active, username, message))

\* C17 witness: piza was inserted before pizzas, both match pizza, votes were counted
\* and the match of pizza is piza
C17_Witness ==
    /\ Len(vote_counts) = 2
    /\ vote_counts[1].phrase = <<112, 105, 122, 97>>
    /\ vote_counts[2].phrase = <<112, 105, 122, 122, 97, 115>>
    /\ voting_active /\ DOMAIN user_votes # {}
    /\ find_matching_phrase(vote_counts, <<112, 105, 122, 122, 97>>, NoneVal)
           = <<112, 105, 122, 97>>

----------------------------------------------------------------------------
(* Properties of a rename *)

\* vc became after: the tally of p went to target, nothing else changed
FoldedInto(vc, after, p, target) ==
    /\ target # p
    /\ p \notin Keys(after)
    /\ Get(after, target, 0) = Get(vc, target, 0) + Get(vc, p, 0)
    /\ \A k \in (Keys(vc) \cup Keys(after)) \ {p, target} :
           /\ k \in Keys(vc) /\ k \in Keys(after)
           /\ Get(after, k, 0) = Get(vc, k, 0)
    /\ SumVotes(after) = SumVotes(vc)

\* the effect C18 describes of renaming p to q
Renamed(vc, after, p, q) ==
    \E found \in (Keys(vc) \ {p}) \cup {NoneVal} :
        /\ IsFirstQualifying(vc, q, p, found)
        /\ FoldedInto(vc, after, p, IF found = NoneVal THEN q ELSE found)

\* C18: in every reachable ledger, save_edit of the phrase of a row (p, n) to another
\* normalized text q removes p and adds n to the match of q among the other phrases,
\* or to q as a new phrase; the other tallies and the sum of the tallies stay
C18_Rename ==
    \A item \in DOMAIN tree, text \in RawMessages :
        (/\ normalize_phrase(Strip(text)) # <<>>
         /\ normalize_phrase(Strip(text)) # tree[item].phrase)
        => Renamed(vote_counts,
                   save_edit_phrase(vote_counts, tree[item].phrase,
                                    safe_int(tree[item].votes, 1),
                                    normalize_phrase(Strip(text))),
                   tree[item].phrase, normalize_phrase(Strip(text)))

\* C18 witness: the ledger is piza: 1 then pizzas: 2, and renaming pizzas to pizza
\* leaves piza: 3 alone
C18_Witness ==
    /\ vote_counts = <<[phrase |-> <<112, 105, 122, 97>>, votes |-> 1],
                       [phrase |-> <<112, 105, 122, 122, 97, 115>>, votes |-> 2]>>
    /\ \E item \in DOMAIN tree :
           /\ tree[item].phrase = <<112, 105, 122, 122, 97, 115>>
           /\ save_edit_phrase(vote_counts, tree[item].phrase,
                               safe_int(tree[item].votes, 1), <<112, 105, 122, 122, 97>>)
                  = <<[phrase |-> <<112, 105, 122, 97>>, votes |-> 3]>>

----------------------------------------------------------------------------
(* Properties of import *)

\* two ledgers with the same tallies and the same votes of the users
SameLedger(r1, r2) ==
    /\ Keys(r1.vc) = Keys(r2.vc)
    /\ \A k \in Keys(r1.vc) : Get(r1.vc, k, 0) = Get(r2.vc, k, 0)
    /\ r1.uv = r2.uv

\* C19: in every reachable ledger, importing a file leaves the ledger that importing
\* it into the empty ledger leaves
C19_ImportReplaces ==
    \A file \in Files :
        SameLedger(import_segments(vote_counts, file), import_segments(<<>>, file))

\* the lines of the file read into acc left the ledger r: every user vote read whose
\* phrase is no imported segment made that phrase with tally 1, the user mapped to it
UserVotesCreate(acc, r) ==
    \A u \in DOMAIN acc.imported_user_votes :
        acc.imported_user_votes[u] \notin Keys(acc.imported)
        => /\ Get(r.vc, acc.imported_user_votes[u], 0) = 1
           /\ u \in DOMAIN r.uv
           /\ r.uv[u] = acc.imported_user_votes[u]

\* C20: in every reachable ledger, for every file, a USERVOTE line whose phrase is not
\* among the imported segments leaves that phrase in vote_counts with tally 1 and the
\* sender mapped to it
C20_UserVoteCreates ==
    \A file \in Files :
        UserVotesCreate(ImportLines([imported |-> <<>>, imported_user_votes |-> <<>>],
                                    vote_counts, file),
                        import_segments(vote_counts, file))

----------------------------------------------------------------------------
(* Export, then import *)

\* chat messages "a ! b", "x" and "ax"
RoundMessages == {<<97, 32, 33, 32, 98>>, <<120>>, <<97, 120>>}

\* a file of the lines "SEGMENT\tax\t1" and "SEGMENT\tx\t2"
RoundFiles == {<<TagSegment \o <<9, 97, 120, 9, 49, 10>>, TagSegment \o <<9, 120, 9, 50, 10>>>>}

NextRound ==
    \/ StartVote
    \/ \E username \in PointerUsers, message \in RoundMessages :
           ConsumeVote(username, message)
    \/ \E text \in TopTexts : OnTopPhrasesChanged(text)
    \/ \E file \in RoundFiles : ImportSegments(file)
    \/ ExportSegments

SpecRound == Init /\ [][NextRound]_vars

\* no two phrases of vc are similar at the threshold or above
PairwiseBelowThreshold(vc) ==
    \A i, j \in DOMAIN vc :
        i # j => ~RatioAtLeastThreshold(vc[i].phrase, vc[j].phrase)

\* C21: in every reachable ledger whose phrases are pairwise below the similarity
\* threshold, importing the file export_segments writes leaves the same tallies and
\* the same votes of the users
C21_RoundTrip ==
    PairwiseBelowThreshold(vote_counts)
    => SameLedger(import_segments(vote_counts,
                      export_segments(vote_counts, user_votes, max_phrases_var)),
                  [vc |-> vote_counts, uv |-> user_votes])

----------------------------------------------------------------------------
(* The flag and the velocity of the wheel *)

\* C22: between operations the wheel is flagged spinning exactly when its velocity is
\* above 0, and the velocity is never above 120 degrees a tick, however many spin
\* requests came one after another
C22_FlagAndCap ==
    /\ spinning <=> FLt(FZero, spin_velocity)
    /\ FLe(spin_velocity, FromInt(120))

\* C22 witness: spin requests were stacked until the velocity met the cap of 120
C22_Witness == spinning /\ spin_velocity = FromInt(120) /\ ticks = 0

----------------------------------------------------------------------------
(* The phrases of the ledger against each other *)

\* C23: in every reachable ledger, the match of a candidate that is equal to a phrase
\* of the ledger, that phrase not being the excluded one, is that phrase
C23_ExactFirst ==
    \A i \in DOMAIN vote_counts, excluded \in Keys(vote_counts) \cup {NoneVal} :
        vote_counts[i].phrase # excluded
        => find_matching_phrase(vote_counts, vote_counts[i].phrase, excluded)
               = vote_counts[i].phrase

\* C24: in every reachable ledger, of two different phrases neither is a substring of
\* the other and their similarity is below 0.86
C24_NoMergeable ==
    \A i, j \in DOMAIN vote_counts :
        i # j => /\ ~IsSubstring(vote_counts[i].phrase, vote_counts[j].phrase)
                 /\ ~RatioAtLeastThreshold(vote_counts[i].phrase, vote_counts[j].phrase)

----------------------------------------------------------------------------
(* Chat events that are no vote *)

\* the ledger r that consume_vote left is the ledger it found
LeftAlone(vc, uv, r) == r.vc = vc /\ r.uv = uv /\ ~r.refreshed

\* C25: in every reachable state, a chat event consumed while voting is not active, or
\* whose sender is blank, or whose message normalizes to the empty phrase, leaves
\* vote_counts and user_votes as they are
C25_NoVote ==
    \A username \in RawUsers, message \in RawMessages :
        (~voting_active \/ Strip(username) = <<>> \/ normalize_phrase(message) = <<>>)
        => LeftAlone(vote_counts, user_votes,
                     consume_vote(vote_counts, user_votes, voting_active, username, message))

\* C25 witness: votes were counted, voting is over, and the ledger still holds them
C25_Witness ==
    /\ ~voting_active
    /\ last_op \in {"vote", "vote_drop"}
    /\ vote_counts # <<>> /\ user_votes # <<>>

====
